---- MODULE Spec2Model ----
(***************************************************************************)
(* A model of the BSE2 exchange (ZhenZhang/source/BSE2.py): the two        *)
(* venues (lit and dark), each a bid and an ask Orderbook_half, the        *)
(* Exchange's order-id allocator, trader records and consolidated tape,    *)
(* and Exchange.process_order / Exchange.publish_lob.                      *)
(*                                                                         *)
(* Python values are modelled as follows: an object is a record of its     *)
(* fields, a list is a sequence (index 0 of the source is index 1 here),   *)
(* a dict is a function, None is the empty sequence <<>> and a value that  *)
(* may be None is a sequence of length 0 or 1.  sys.exit and an uncaught   *)
(* exception both end the session: the variable aborted becomes TRUE and   *)
(* no further call is made.                                                *)
(***************************************************************************)
EXTENDS Integers, Sequences, FiniteSets, TLC

\* ---- bounds of the model ------------------------------------------------
NumTraders == 1     \* the number of buyers, and of sellers
MaxPrice == 2       \* order prices are 1..MaxPrice
MaxQty == 2         \* order quantities are 1..MaxQty
MaxTime == 1        \* the session clock runs over 0..MaxTime
MaxCalls == 3       \* number of process_order calls in one session
MaxEdge == 1        \* block quantities: block_size - MaxEdge and up to,
                    \* not including, block_size + MaxEdge
MaxDepth == 2       \* publish_lob is asked for 0..MaxDepth tape entries
MaxSnapshots == 1   \* number of published snapshots a caller keeps

\* ---- program constants --------------------------------------------------
bse_sys_minprice == 1
bse_sys_maxprice == 200
block_size == 300
MaxAdds == 3         \* direct calls of book_add and add_order
MaxQuotes == 4       \* calls of the exchange of BSE.py in one session
MaxSameSide == 2     \* traders on each side of the market of BSE.py
tape_length == 2     \* Orderbook.tape_length of BSE.py (10000 there),
                     \* made small so that the tape is truncated

None == << >>
Some(x) == << x >>

\* populate_market names the traders 'B%02d' (buyers, who are assigned bids)
\* and 'S%02d' (sellers, who are assigned asks); a trader id is a number
\* here, in the order of those strings
Buyers == 1 .. NumTraders
Sellers == {100 + i : i \in 1 .. NumTraders}
Tids == Buyers \cup Sellers
Prices == 1 .. MaxPrice
Qtys == 1 .. MaxQty
Times == 0 .. MaxTime
Sides == {"Bid", "Ask"}
NewStyles == {"LIM", "GFD", "MKT", "IOC", "FOK", "AON"}

VARIABLES
    lit,          \* Exchange.lit : Orderbook, [bids, asks, last_trans]
    drk,          \* Exchange.drk : Orderbook
    tape,         \* Exchange.tape
    last_trans,   \* Exchange.last_trans_t/_p/_q as set by tape_update
    trader_recs,  \* Exchange.trader_recs
    order_id,     \* Exchange.order_id
    now,          \* the session clock: time argument of the latest call
    aborted,      \* the session was ended by sys.exit or an exception
    ret,          \* the value returned by the latest process_order call
    call,         \* the latest call: its number, its time, its order as
                  \* submitted and as the call left it, the books and the
                  \* tape before it, whether it returned, the tape events
                  \* the venue returned, and one record for each pass of
                  \* the loop of book_take
    snaps,        \* the values publish_lob returned that a caller still
                  \* holds, each with a mark that tells whether its
                  \* 'tape' is the Exchange's own list object
    pending,      \* the on_open and on_close lists of the four halves
    open,         \* Exchange.open
    ended_in,     \* the method whose exception or sys.exit ended the
                  \* session, "" while the session runs
    v1,           \* the Exchange of BSE.py: [bids, asks, tape, quote_id]
    out           \* the latest call of a method other than process_order
                  \* and publish_lob: its name, whether it returned, and
                  \* the value it returned

vars == << lit, drk, tape, last_trans, trader_recs, order_id, now, aborted,
           ret, call, snaps, pending, open, ended_in, v1, out >>

\* ---- helpers ------------------------------------------------------------
\* Del that empties the dict
DelAll(f, k) == << >>

Del(f, k) == [x \in DOMAIN f \ {k} |-> f[x]]

Put(f, k, v) == [x \in DOMAIN f \cup {k} |-> IF x = k THEN v ELSE f[x]]

RECURSIVE SetToSeq(_)
SetToSeq(S) ==
    IF S = {} THEN << >>
    ELSE LET x == CHOOSE y \in S : TRUE IN << x >> \o SetToSeq(S \ {x})

RECURSIVE SumSeq(_)
SumSeq(s) == IF s = << >> THEN 0 ELSE Head(s) + SumSeq(Tail(s))

\* total quantity of the live orders of one dict of orders
SumQty(orders) ==
    SumSeq([i \in 1 .. Cardinality(DOMAIN orders) |->
                orders[SetToSeq(DOMAIN orders)[i]].qty])

\* ---- BSE2_msg_classes ---------------------------------------------------
\* an Order constructor that stores the price as the quantity
Order_PriceAsQty(trader_id, otype, ostyle, price, qty, time, orderid) ==
    [tid |-> trader_id, otype |-> otype, ostyle |-> ostyle, price |-> price,
     qty |-> price, time |-> time, orderid |-> orderid]

Order(trader_id, otype, ostyle, price, qty, time, orderid) ==
    [tid |-> trader_id, otype |-> otype, ostyle |-> ostyle, price |-> price,
     qty |-> qty, time |-> time, orderid |-> orderid]

Assignment(customer_id, trader_id, otype, ostyle, price, qty, time, assignmentid) ==
    [cust_id |-> customer_id, trad_id |-> trader_id, atype |-> otype,
     astyle |-> ostyle, price |-> price, qty |-> qty, time |-> time,
     assignmentid |-> assignmentid]

Exch_msg(trader_id, order_id_, eventtype, transactions, revised_order, fee) ==
    [tid |-> trader_id, oid |-> order_id_, event |-> eventtype,
     trns |-> transactions, revo |-> revised_order, fee |-> fee,
     balance |-> 0]

\* ---- Orderbook_half -----------------------------------------------------
\* equaltoorbetterthan that takes equal prices as not good
equaltoorbetterthan_Better(booktype, p1, p2) ==
    IF booktype = "Bid" THEN p1 > p2 ELSE p1 < p2

equaltoorbetterthan(booktype, p1, p2) ==
    IF booktype = "Bid" THEN p1 >= p2 ELSE p1 <= p2

\* Python's list comparison of two [time, qty, tid, orderid] entries
EntryLess(a, b) ==
    \/ a[1] < b[1]
    \/ a[1] = b[1] /\ a[2] < b[2]
    \/ a[1] = b[1] /\ a[2] = b[2] /\ a[3] < b[3]
    \/ a[1] = b[1] /\ a[2] = b[2] /\ a[3] = b[3] /\ a[4] < b[4]

\* SortOrderlist as orderlist.sort(reverse=True)
SortOrderlistReversed(orderlist) ==
    SortSeq(orderlist, LAMBDA a, b : EntryLess(b, a))

\* orderlist.sort()
SortOrderlist(orderlist) == SortSeq(orderlist, EntryLess)

\* SortLob without reverse=True for bids
SortLobAscending(booktype, rows) ==
    SortSeq(rows, LAMBDA r1, r2 : r1[1] < r2[1])

\* self.lob.sort(reverse=True) for bids, self.lob.sort() for asks
SortLob(booktype, rows) ==
    IF booktype = "Bid"
    THEN SortSeq(rows, LAMBDA r1, r2 : r1[1] > r2[1])
    ELSE SortSeq(rows, LAMBDA r1, r2 : r1[1] < r2[1])

\* LevelQty that keeps the quantity of the first order of the price
LevelQtyOfFirst(olist) == olist[1][2]

\* build_lob, lines 171-177: the quantity kept with the orderlist of a price
LevelQty(olist) == SumSeq([i \in 1 .. Len(olist) |-> olist[i][2]])

\* the first loop of build_lob: the dict lob[price] = [qty, orderlist]
LobDict(orders) ==
    LET prices == {orders[o].price : o \in DOMAIN orders}
        at(p) == {o \in DOMAIN orders : orders[o].price = p}
        entry(o) == << orders[o].time, orders[o].qty, orders[o].tid,
                       orders[o].orderid >>
        olist(p) == [i \in 1 .. Cardinality(at(p)) |->
                        entry(SetToSeq(at(p))[i])]
    IN  [p \in prices |->
            << LevelQty(olist(p)), olist(p) >>]

\* build_lob: the new values of self.lob and self.lob_anon
build_lob(orders, booktype) ==
    LET rows(lobd, prices) ==
            [i \in 1 .. Len(prices) |->
                << prices[i], SortOrderlist(lobd[prices[i]][2]) >>]
        keys(prices) ==
            SortLob(booktype, [i \in 1 .. Len(prices) |-> << prices[i] >>])
        lob_anon(lobd, ks) ==
            [i \in 1 .. Len(ks) |-> << ks[i][1], lobd[ks[i][1]][1] >>]
        built(lobd, prices) ==
            [lob |-> SortLob(booktype, rows(lobd, prices)),
             lob_anon |-> lob_anon(lobd, keys(prices))]
        from(lobd) == built(lobd, SetToSeq(DOMAIN lobd))
    IN  from(LobDict(orders))

Orderbook_half ==
    [orders |-> << >>, lob |-> << >>, lob_anon |-> << >>]

\* self.orders changed to orders and build_lob called
Rebuilt(orders, booktype) ==
    [orders |-> orders] @@ build_lob(orders, booktype)

book_add(half, booktype, order) ==
    Rebuilt(Put(half.orders, order.orderid, order), booktype)

\* book_CAN without the call of build_lob
book_CAN_NoRebuild(half, booktype, time, order, pool_id) ==
    LET oid == order.orderid
    IN  IF Cardinality(DOMAIN half.orders) > 0 /\ oid \in DOMAIN half.orders
        THEN [half |-> [half EXCEPT !.orders = Del(half.orders, oid)],
              response |-> Some([TraderMsgs |->
                                    << Exch_msg(order.tid, oid, "CAN", << >>,
                                                None, 0) >>,
                                 TapeEvents |->
                                    << [pool_id |-> pool_id, type |-> "CAN",
                                        time |-> time, oid |-> oid,
                                        otype |-> booktype,
                                        o_qty |-> half.orders[oid].qty] >>]),
              abort |-> FALSE]
        ELSE [half |-> half, response |-> None, abort |-> TRUE]

\* book_CAN that treats an unknown order id as no operation
book_CAN_Nop(half, booktype, time, order, pool_id) ==
    LET oid == order.orderid
    IN  IF oid \in DOMAIN half.orders
        THEN book_CAN_NoRebuild(half, booktype, time, order, pool_id)
        ELSE [half |-> half, response |-> None, abort |-> FALSE]

\* book_CAN that removes an order only for the participant that owns it
book_CAN_OwnOnly(half, booktype, time, order, pool_id) ==
    LET oid == order.orderid
    IN  IF oid \in DOMAIN half.orders /\ half.orders[oid].tid # order.tid
        THEN [half |-> half, response |-> None, abort |-> FALSE]
        ELSE book_CAN_Nop(half, booktype, time, order, pool_id)

\* book_CAN: the half after the call, the response, and whether the call
\* ended the session (order id not in the order dictionary)
book_CAN(half, booktype, time, order, pool_id) ==
    LET oid == order.orderid
    IN  IF Cardinality(DOMAIN half.orders) > 0 /\ oid \in DOMAIN half.orders
        THEN LET o_qty == half.orders[oid].qty
                 tmsg == Exch_msg(order.tid, oid, "CAN", << >>, None, 0)
                 tape_event == [pool_id |-> pool_id, type |-> "CAN",
                                time |-> time, oid |-> oid,
                                otype |-> booktype, o_qty |-> o_qty]
             IN  [half |-> Rebuilt(Del(half.orders, oid), booktype),
                  response |-> Some([TraderMsgs |-> << tmsg >>,
                                     TapeEvents |-> << tape_event >>]),
                  abort |-> FALSE]
        ELSE [half |-> half, response |-> None, abort |-> TRUE]

\* book_take, lines 315-321: cumulative quantity at prices equal to or
\* better than price, reading lob_anon from index i up to the first level
\* whose price is not good
RECURSIVE DepthFrom(_, _, _, _)
DepthFrom(lob_anon, booktype, price, i) ==
    IF i > Len(lob_anon) THEN 0
    ELSE IF equaltoorbetterthan(booktype, lob_anon[i][1], price)
         THEN lob_anon[i][2] + DepthFrom(lob_anon, booktype, price, i + 1)
         ELSE 0

\* TradePrice as the incoming order's own price
TradePriceOfIncoming(best_lob_price, order) == order.price

\* the price a Trade event and a transaction carry (book_take, lines 407
\* and 450): the price of the level at the front of the book
TradePrice(best_lob_price, order) == best_lob_price

\* the resting order the walk consumes next (book_take, lines 385-390)
BestLobOrder(lob) == lob[1][2][1]

\* TradeQty as the whole remaining quantity, whatever rests at the front
TradeQtyAllRemaining(best_lob_order_qty, qty_remaining) == qty_remaining

\* the quantity of one trade (book_take, lines 403-406 and 449)
TradeQty(best_lob_order_qty, qty_remaining) ==
    IF best_lob_order_qty >= qty_remaining THEN qty_remaining
    ELSE best_lob_order_qty

\* RestingMsg that tells the owner FILL in both cases
RestingMsgAlwaysFill(partial, tid, oid, transaction, revised) ==
    Exch_msg(tid, oid, "FILL", << transaction >>, None, 0)

\* the message to the owner of the resting order (book_take, lines 429,
\* 436 and 456): PART with the revised order when it is only partially
\* consumed, FILL when it is fully consumed
RestingMsg(partial, tid, oid, transaction, revised) ==
    IF partial
    THEN Exch_msg(tid, oid, "PART", << transaction >>, Some(revised), 0)
    ELSE Exch_msg(tid, oid, "FILL", << transaction >>, None, 0)

\* InsufficientDepth with the test line 333 makes for IOC
InsufficientDepthAsIOC(depth, order) == depth < 1

\* book_take, line 326: FOK and AON require a complete fill
InsufficientDepth(depth, order) == depth < order.qty

\* PartlyConsumed that keeps a resting order with nothing left of it
PartlyConsumedAtZero(best_lob_order_qty) == best_lob_order_qty >= 0

\* book_take, line 420: the best order of the book stays on the book when
\* some of its quantity is left after the trade
PartlyConsumed(best_lob_order_qty) == best_lob_order_qty > 0

\* one pass through the body of the while loop of book_take.
\* st = [orders, lob, qty_remaining, qty_filled, good_price, broke,
\*       trnsctns, msg_list, tape_events, log]
TakeStep(st, booktype, time, order, pool_id) ==
    LET good == equaltoorbetterthan(booktype, st.lob[1][1], order.price)
    IN  IF order.ostyle = "IOC" /\ ~good
        THEN [st EXCEPT !.good_price = good, !.broke = TRUE]
        ELSE
        LET best_lob_price == st.lob[1][1]
            best_lob_orders == st.lob[1][2]
            best_lob_order == BestLobOrder(st.lob)
            best_lob_order_qty == best_lob_order[2]
            best_lob_order_tid == best_lob_order[3]
            best_lob_order_oid == best_lob_order[4]
            tid_from == IF order.otype = "Bid" THEN best_lob_order_tid
                        ELSE order.tid
            tid_to == IF order.otype = "Bid" THEN order.tid
                      ELSE best_lob_order_tid
            completes == best_lob_order_qty >= st.qty_remaining
            qty == TradeQty(best_lob_order_qty, st.qty_remaining)
            price == TradePrice(best_lob_price, order)
            left == best_lob_order_qty - qty
            transaction == [Price |-> price, Qty |-> qty]
            trnsctns == Append(st.trnsctns, transaction)
            tape_event == [pool_id |-> pool_id, type |-> "Trade",
                           time |-> time, price |-> price, qty |-> qty,
                           party1 |-> tid_from, party2 |-> tid_to]
            partial == completes /\ PartlyConsumed(left)
            orders1 == IF partial
                       THEN [st.orders EXCEPT ![best_lob_order_oid].qty = left]
                       ELSE Del(st.orders, best_lob_order_oid)
            lob1 == IF partial
                    THEN [st.lob EXCEPT ![1][2][1][2] = left]
                    ELSE IF Len(best_lob_orders) > 1
                         THEN [st.lob EXCEPT ![1][2] = Tail(best_lob_orders)]
                         ELSE Tail(st.lob)
            msg_in == Exch_msg(order.tid, order.orderid, "FILL", trnsctns,
                               None, 0)
            msg_rest == RestingMsg(partial, best_lob_order_tid,
                                   best_lob_order_oid, transaction,
                                   IF partial THEN orders1[best_lob_order_oid]
                                   ELSE st.orders[best_lob_order_oid])
            logitem == [oid |-> best_lob_order_oid,
                        tid |-> best_lob_order_tid,
                        price |-> price, qty |-> qty,
                        rest |-> st.orders[best_lob_order_oid],
                        book |-> st.orders,
                        rest_before |-> SumQty(st.orders),
                        rest_after |-> SumQty(orders1),
                        rem_before |-> st.qty_remaining,
                        rem_after |-> st.qty_remaining - qty,
                        limit |-> order.price]
        IN  [orders |-> orders1,
             lob |-> lob1,
             qty_remaining |-> st.qty_remaining - qty,
             qty_filled |-> st.qty_filled + qty,
             good_price |-> good,
             broke |-> FALSE,
             trnsctns |-> trnsctns,
             msg_list |-> IF completes
                          THEN st.msg_list \o << msg_in, msg_rest >>
                          ELSE Append(st.msg_list, msg_rest),
             tape_events |-> Append(st.tape_events, tape_event),
             log |-> Append(st.log, logitem)]

\* the while loop of book_take (line 370)
RECURSIVE TakeLoop(_, _, _, _, _)
TakeLoop(st, booktype, time, order, pool_id) ==
    IF ~st.broke /\ st.good_price /\ st.qty_remaining > 0
       /\ Cardinality(DOMAIN st.orders) > 0
    THEN TakeLoop(TakeStep(st, booktype, time, order, pool_id),
                  booktype, time, order, pool_id)
    ELSE st

\* book_take: the half after the call, the response, whether the call ended
\* the session, the incoming order as the call leaves it, and the log of
\* the passes of the loop
book_take(half, booktype, time, order, pool_id) ==
    LET fail == Exch_msg(order.tid, order.orderid, "FAIL", << >>, None, 0)
        failed == [half |-> half,
                   response |-> Some([TraderMsgs |-> << fail >>,
                                      TapeEvents |-> << >>]),
                   abort |-> FALSE, order |-> order, log |-> << >>]
        depth == DepthFrom(half.lob_anon, booktype, order.price, 1)
    IN  IF Len(half.lob) = 0 THEN failed
        ELSE IF order.ostyle \in {"FOK", "AON"}
                /\ InsufficientDepth(depth, order)
        THEN \* line 328 reads order.oid: class Order has no such attribute
             [half |-> half, response |-> None, abort |-> TRUE,
              order |-> order, log |-> << >>]
        ELSE IF order.ostyle = "IOC" /\ depth < 1 THEN failed
        ELSE
        LET done(st) ==
                LET order1 == IF st.qty_remaining > 0
                                 /\ st.qty_remaining # order.qty
                              THEN [order EXCEPT !.qty = st.qty_remaining]
                              ELSE order
                    msg_list == IF st.qty_remaining > 0
                                THEN IF st.qty_remaining = order.qty
                                     THEN Append(st.msg_list, fail)
                                     ELSE Append(st.msg_list,
                                                 Exch_msg(order.tid,
                                                          order.orderid,
                                                          "PART", st.trnsctns,
                                                          Some(order1), 0))
                                ELSE st.msg_list
                IN  [half |-> Rebuilt(st.orders, booktype),
                     response |-> Some([TraderMsgs |-> msg_list,
                                        TapeEvents |-> st.tape_events]),
                     abort |-> FALSE, order |-> order1, log |-> st.log]
            st0 == [orders |-> half.orders,
                    lob |-> half.lob,
                    qty_remaining |-> order.qty,
                    qty_filled |-> 0,
                    good_price |-> IF order.ostyle # "MKT"
                                   THEN equaltoorbetterthan(booktype,
                                            half.lob[1][1], order.price)
                                   ELSE TRUE,
                    broke |-> FALSE,
                    trnsctns |-> << >>,
                    msg_list |-> << >>,
                    tape_events |-> << >>,
                    log |-> << >>]
        IN  done(TakeLoop(st0, booktype, time, order, pool_id))

\* ---- Orderbook ----------------------------------------------------------
\* last_trans stands for last_trans_t, last_trans_p and last_trans_q
Orderbook ==
    [bids |-> Orderbook_half, asks |-> Orderbook_half, last_trans |-> None]

\* add_lim_order: book_add on the order's own side; the response is None
add_lim_order(pool, order) ==
    IF order.otype = "Bid"
    THEN [pool EXCEPT !.bids = book_add(pool.bids, "Bid", order)]
    ELSE [pool EXCEPT !.asks = book_add(pool.asks, "Ask", order)]

\* process_order_CAN: the pool after the call, the response, abort
process_order_CAN(pool, time, order, pool_id) ==
    LET bid(r) == [pool |-> [pool EXCEPT !.bids = r.half],
                   response |-> r.response, abort |-> r.abort,
                   order |-> order, log |-> << >>]
        ask(r) == [pool |-> [pool EXCEPT !.asks = r.half],
                   response |-> r.response, abort |-> r.abort,
                   order |-> order, log |-> << >>]
    IN  IF order.otype = "Bid"
        THEN bid(book_CAN(pool.bids, "Bid", time, order, pool_id))
        ELSE IF order.otype = "Ask"
        THEN ask(book_CAN(pool.asks, "Ask", time, order, pool_id))
        ELSE \* sys.exit('process_order_CAN() given neither Bid nor Ask')
             [pool |-> pool, response |-> None, abort |-> TRUE,
              order |-> order, log |-> << >>]

\* process_order_take: a bid consumes from the ask book, an ask from the
\* bid book
process_order_take(pool, time, order, pool_id) ==
    LET bid(r) == [pool |-> [pool EXCEPT !.asks = r.half],
                   response |-> r.response, abort |-> r.abort,
                   order |-> r.order, log |-> r.log]
        ask(r) == [pool |-> [pool EXCEPT !.bids = r.half],
                   response |-> r.response, abort |-> r.abort,
                   order |-> r.order, log |-> r.log]
    IN  IF order.otype = "Bid"
        THEN bid(book_take(pool.asks, "Ask", time, order, pool_id))
        ELSE IF order.otype = "Ask"
        THEN ask(book_take(pool.bids, "Bid", time, order, pool_id))
        ELSE \* sys.exit('process_order_take() given neither Bid nor Ask')
             [pool |-> pool, response |-> None, abort |-> TRUE,
              order |-> order, log |-> << >>]

\* Crosses with the two comparisons exchanged
CrossesSwapped(pool, order) ==
    IF order.otype = "Bid"
    THEN Len(pool.asks.lob) > 0 /\ order.price <= pool.asks.lob[1][1]
    ELSE Len(pool.bids.lob) > 0 /\ order.price >= pool.bids.lob[1][1]

\* process_order_LIM, lines 650 and 659: does the LIM price cross the spread?
Crosses(pool, order) ==
    IF order.otype = "Bid"
    THEN Len(pool.asks.lob) > 0 /\ order.price >= pool.asks.lob[1][1]
    ELSE Len(pool.bids.lob) > 0 /\ order.price <= pool.bids.lob[1][1]

\* process_order_LIM that adds what a crossing order did not trade to the
\* order's own side
process_order_LIM_RestsRemainder(pool, time, order, pool_id) ==
    IF order.otype \notin Sides
    THEN [pool |-> pool, response |-> None, abort |-> TRUE,
          order |-> order, log |-> << >>]
    ELSE IF Crosses(pool, order)
    THEN LET rest(r) ==
                 IF r.order.qty > 0 /\ r.order.qty < order.qty
                 THEN [r EXCEPT !.pool = add_lim_order(r.pool, r.order)]
                 ELSE r
         IN  rest(process_order_take(pool, time,
                                     [order EXCEPT !.ostyle = "IOC"],
                                     pool_id))
    ELSE [pool |-> add_lim_order(pool, order), response |-> None,
          abort |-> FALSE, order |-> order, log |-> << >>]

\* process_order_LIM that hands every order to process_order_take as IOC
process_order_LIM_AlwaysTake(pool, time, order, pool_id) ==
    process_order_take(pool, time, [order EXCEPT !.ostyle = "IOC"], pool_id)

\* process_order_LIM without its final else: a side that is not Bid is
\* handled as Ask
process_order_LIM_NoSideCheck(pool, time, order, pool_id) ==
    IF order.otype \in Sides /\ Crosses(pool, order)
    THEN process_order_take(pool, time, [order EXCEPT !.ostyle = "IOC"],
                            pool_id)
    ELSE [pool |-> add_lim_order(pool, order), response |-> None,
          abort |-> FALSE, order |-> order, log |-> << >>]

\* process_order_LIM: a crossing order is treated as IOC, any other is added
process_order_LIM(pool, time, order, pool_id) ==
    IF order.otype \notin Sides
    THEN \* sys.exit('process_order_LIM() given neither Bid nor Ask')
         [pool |-> pool, response |-> None, abort |-> TRUE,
          order |-> order, log |-> << >>]
    ELSE IF Crosses(pool, order)
    THEN process_order_take(pool, time, [order EXCEPT !.ostyle = "IOC"],
                            pool_id)
    ELSE [pool |-> add_lim_order(pool, order), response |-> None,
          abort |-> FALSE, order |-> order, log |-> << >>]

\* the on_open and on_close lists of the two halves of one pool
PendingLists ==
    [bids |-> [on_open |-> << >>, on_close |-> << >>],
     asks |-> [on_open |-> << >>, on_close |-> << >>]]

\* process_order_pending: the lists of the pool after the call, and whether
\* the call ended the session (side neither Bid nor Ask)
process_order_pending(lists, order) ==
    LET on_open == order.ostyle \in {"LOO", "MOO"}
    IN  IF order.otype = "Bid"
        THEN [lists |-> IF on_open
                        THEN [lists EXCEPT !.bids.on_open = Append(@, order)]
                        ELSE [lists EXCEPT !.bids.on_close = Append(@, order)],
              abort |-> FALSE]
        ELSE IF order.otype = "Ask"
        THEN [lists |-> IF on_open
                        THEN [lists EXCEPT !.asks.on_open = Append(@, order)]
                        ELSE [lists EXCEPT !.asks.on_close = Append(@, order)],
              abort |-> FALSE]
        ELSE [lists |-> lists, abort |-> TRUE]

\* ---- Exchange -----------------------------------------------------------
\* a trader_record whose registration time is the start of the session
trader_record_AtZero(time, tid) == [tid |-> tid, regtime |-> 0, balance |-> 0]

trader_record(time, tid) == [tid |-> tid, regtime |-> time, balance |-> 0]

\* process_order, lines 1050-1068: the summary of the trades of one call
TapeSummary(time, tape_events) ==
    LET trades == SelectSeq(tape_events, LAMBDA e : e.type = "Trade")
        total_cost == SumSeq([i \in 1 .. Len(trades) |-> trades[i].price])
        total_qty == SumSeq([i \in 1 .. Len(trades) |-> trades[i].qty])
    IN  IF Len(tape_events) > 0 /\ total_qty > 0
        THEN Some([type |-> "Trade", time |-> time,
                   price |-> total_cost \div total_qty,
                   party1 |-> None, party2 |-> None, qty |-> total_qty])
        ELSE None

\* tape_update applied to each event of a response: the last Trade sets
\* last_trans_t, last_trans_p, last_trans_q of the Exchange object
LastTrans(old, tape_events) ==
    LET trades == SelectSeq(tape_events, LAMBDA e : e.type = "Trade")
    IN  IF Len(trades) = 0 THEN old
        ELSE LET tr == trades[Len(trades)]
             IN  Some(<< tr.time, tr.price, tr.qty >>)

\* PoolOf that sends every order to the lit pool
PoolOfAlwaysLit(order) == "lit"

\* process_order, lines 909-914: which pool does the order go to
PoolOf(order) == IF order.qty < block_size THEN "lit" ELSE "drk"

\* NewOrderId that hands out the same id again
NewOrderIdSame(orderid) == orderid

\* process_order, line 932: self.order_id = order.orderid + 1
NewOrderId(orderid) == orderid + 1

\* process_order, lines 917-990: the dispatch on the order style
Dispatch(time, order) ==
    LET pname == PoolOf(order)
        pool == IF pname = "lit" THEN lit ELSE drk
        pool_id == IF pname = "lit" THEN "Lit" ELSE "Drk"
        stamped == [order EXCEPT !.orderid = order_id]
    IN  IF order.ostyle = "CAN"
        THEN process_order_CAN(pool, time, order, pool_id)
                @@ [order_id |-> order_id, pending |-> pending]
        ELSE IF order.ostyle = "XXX"
        THEN \* process_order_XXX reads .tid of a dict key (an int) when a
             \* book holds an order (lines 598-599, 602-603); when all four
             \* halves are empty consolidate_responses indexes a list by
             \* 'TraderMsgs' (line 754); and 'response' is never assigned
             [pool |-> pool, response |-> None, abort |-> TRUE,
              order |-> order, log |-> << >>, order_id |-> order_id,
              pending |-> pending]
        ELSE IF order.ostyle \in {"LIM", "GFD"}
        THEN process_order_LIM(pool, time, stamped, pool_id)
                @@ [order_id |-> NewOrderId(order_id), pending |-> pending]
        ELSE IF order.ostyle \in {"MKT", "FOK", "IOC"}
        THEN process_order_take(pool, time, stamped, pool_id)
                @@ [order_id |-> NewOrderId(order_id), pending |-> pending]
        ELSE IF order.ostyle \in {"LOC", "MOC", "LOO", "MOO"}
        THEN \* the order is put on its list and the response is
             \* {'TraderMsgs':None, 'TapeEvents':None}; line 1009 then
             \* iterates over trader_msgs, which is None
             [pool |-> pool, response |-> None, abort |-> TRUE,
              order |-> stamped, log |-> << >>,
              order_id |-> NewOrderId(order_id),
              pending |-> [pending EXCEPT ![pname] =
                              process_order_pending(@, stamped).lists]]
        ELSE \* AON, line 947: pool.resting is not an attribute of Orderbook;
             \* OCO, OSO, ICE: Orderbook has no process_order_OXO or
             \* process_order_ICE; any other style: line 990
             [pool |-> pool, response |-> None, abort |-> TRUE,
              order |-> stamped, log |-> << >>,
              order_id |-> NewOrderId(order_id), pending |-> pending]

\* tape_update that keeps only the new event
tape_update_Overwrite(tape_, tr) == << tr >>

\* tape_update, line 829: self.tape.append(tr)
tape_update(tape_, tr) == Append(tape_, tr)

\* process_order, lines 1016-1018: tape_update for each event in turn
RECURSIVE TapeUpdates(_, _)
TapeUpdates(tape_, tape_events) ==
    IF tape_events = << >> THEN tape_
    ELSE TapeUpdates(tape_update(tape_, Head(tape_events)),
                     Tail(tape_events))

\* process_order: every field of the Exchange after the call, the value
\* returned, and whether the call ended the session
process_order(time, order) ==
    LET recs == IF order.tid \in DOMAIN trader_recs THEN trader_recs
                ELSE Put(trader_recs, order.tid,
                         trader_record(time, order.tid))
        after(d, events) ==
            [lit |-> IF PoolOf(order) = "lit" THEN d.pool ELSE lit,
             drk |-> IF PoolOf(order) = "drk" THEN d.pool ELSE drk,
             trader_recs |-> recs,
             order_id |-> d.order_id,
             abort |-> d.abort,
             tape |-> IF d.abort THEN tape ELSE TapeUpdates(tape, events),
             last_trans |-> IF d.abort THEN last_trans
                            ELSE LastTrans(last_trans, events),
             ret |-> IF d.abort \/ d.response = None
                     THEN [tape_summary |-> None, trader_msgs |-> None]
                     ELSE [tape_summary |-> TapeSummary(time, events),
                           trader_msgs |-> Some(d.response[1].TraderMsgs)],
             order |-> d.order,
             events |-> events,
             pending |-> d.pending,
             log |-> d.log]
        dispatched(d) == after(d, IF d.response = None THEN << >>
                                  ELSE d.response[1].TapeEvents)
    IN  dispatched(Dispatch(time, order))

\* ---- the session --------------------------------------------------------
NoCall ==
    [n |-> 0, time |-> 0, returned |-> FALSE,
     order |-> Order(0, "Bid", "LIM", 0, 0, 0, -1),
     after |-> Order(0, "Bid", "LIM", 0, 0, 0, -1),
     before |-> [lit |-> Orderbook, drk |-> Orderbook, tape |-> << >>],
     events |-> << >>,
     log |-> << >>]

\* ---- BSE.py: the order book of version 1 --------------------------------
BSE_sys_minprice == 1
BSE_sys_maxprice == 500

BSE_Order(tid, otype, price, qty, time, qid) ==
    [tid |-> tid, otype |-> otype, price |-> price, qty |-> qty,
     time |-> time, qid |-> qid]

\* sorted(self.lob): the keys of a dict in ascending order
RECURSIVE sorted(_)
sorted(S) ==
    IF S = {} THEN << >>
    ELSE LET least == CHOOSE x \in S : \A y \in S : x <= y
         IN  << least >> \o sorted(S \ {least})

\* anonymize_lob: [price, qty] for each price of the lob, ascending
anonymize_lob(lob) ==
    LET prices == sorted(DOMAIN lob)
    IN  [i \in 1 .. Len(prices) |-> << prices[i], lob[prices[i]].qty >>]

\* build_lob: lob, lob_anon, best_price and best_tid from the dict of orders;
\* keys is the order in which the dict hands out its keys (insertion order,
\* an overwritten key keeps its place)
BSE_build_lob(orders, keys, booktype) ==
    LET at(p) == SelectSeq(keys, LAMBDA k : orders[k].price = p)
        orderlist(p) ==
            [i \in 1 .. Len(at(p)) |->
                << orders[at(p)[i]].time, orders[at(p)[i]].qty,
                   orders[at(p)[i]].tid, orders[at(p)[i]].qid >>]
        lob == [p \in {orders[k].price : k \in DOMAIN orders} |->
                   [qty |-> SumSeq([i \in 1 .. Len(at(p)) |->
                                       orders[at(p)[i]].qty]),
                    orderlist |-> orderlist(p)]]
        lob_anon == anonymize_lob(lob)
        best == IF booktype = "Bid"
                THEN lob_anon[Len(lob_anon)][1] ELSE lob_anon[1][1]
    IN  [lob |-> lob, lob_anon |-> lob_anon,
         best_price |-> IF DOMAIN lob = {} THEN None ELSE Some(best),
         best_tid |-> IF DOMAIN lob = {} THEN None
                      ELSE Some(lob[best].orderlist[1][3])]

BSE_OrderbookHalf(booktype, worstprice) ==
    [booktype |-> booktype, orders |-> << >>, keys |-> << >>,
     lob |-> << >>, lob_anon |-> << >>, best_price |-> None,
     best_tid |-> None, worstprice |-> worstprice,
     session_extreme |-> None, n_orders |-> 0, lob_depth |-> 0]

\* book_add, lines 177-184: the half once the order is stored under its
\* trader id and the lob rebuilt
BSE_added(half, order) ==
    LET session_extreme ==
            IF half.booktype = "Ask"
               /\ (half.session_extreme = None
                   \/ order.price > half.session_extreme[1])
            THEN Some(order.price) ELSE half.session_extreme
        orders == Put(half.orders, order.tid, order)
        keys == IF order.tid \in DOMAIN half.orders THEN half.keys
                ELSE Append(half.keys, order.tid)
        after(built) ==
            [booktype |-> half.booktype, orders |-> orders,
             keys |-> keys, lob |-> built.lob,
             lob_anon |-> built.lob_anon,
             best_price |-> built.best_price,
             best_tid |-> built.best_tid,
             worstprice |-> half.worstprice,
             session_extreme |-> session_extreme,
             n_orders |-> Cardinality(DOMAIN orders),
             lob_depth |-> half.lob_depth]
    IN  after(BSE_build_lob(orders, keys, half.booktype))

\* book_add that reports an addition whatever the dict held
BSE_book_add_AlwaysAddition(half, order) ==
    [half |-> BSE_added(half, order), response |-> "Addition"]

\* book_add of BSE.py: the half after the call and the string it returns
BSE_book_add(half, order) ==
    LET n_orders == half.n_orders
        result(added) ==
            [half |-> added,
             response |-> IF n_orders # added.n_orders
                          THEN "Addition" ELSE "Overwrite"]
    IN  result(BSE_added(half, order))

BSE_Orderbook ==
    [bids |-> BSE_OrderbookHalf("Bid", BSE_sys_minprice),
     asks |-> BSE_OrderbookHalf("Ask", BSE_sys_maxprice),
     tape |-> << >>, quote_id |-> 0]

\* Exchange.add_order of BSE.py: the exchange after the call and the list
\* [order.qid, response] it returns
BSE_add_order(exch, order) ==
    LET stamped == [order EXCEPT !.qid = exch.quote_id]
        bid(r) == [exch |-> [exch EXCEPT !.quote_id = stamped.qid + 1,
                                         !.bids = r.half],
                   value |-> << stamped.qid, r.response >>]
        ask(r) == [exch |-> [exch EXCEPT !.quote_id = stamped.qid + 1,
                                         !.asks = r.half],
                   value |-> << stamped.qid, r.response >>]
    IN  IF order.otype = "Bid"
        THEN bid(BSE_book_add(exch.bids, stamped))
        ELSE ask(BSE_book_add(exch.asks, stamped))

\* book_del: the order of the trader is deleted when there is one
BSE_book_del(half, order) ==
    IF order.tid \in DOMAIN half.orders
    THEN LET orders == Del(half.orders, order.tid)
             keys == SelectSeq(half.keys, LAMBDA k : k # order.tid)
             after(built) ==
                 [half EXCEPT !.orders = orders, !.keys = keys,
                              !.n_orders = Cardinality(DOMAIN orders),
                              !.lob = built.lob,
                              !.lob_anon = built.lob_anon,
                              !.best_price = built.best_price,
                              !.best_tid = built.best_tid]
         IN  after(BSE_build_lob(orders, keys, half.booktype))
    ELSE half

\* delete_best: the half after the call and the trader id it returns
delete_best(half) ==
    LET best_price_orders == half.lob[half.best_price[1]]
        best_price_qty == best_price_orders.qty
        best_price_counterparty == best_price_orders.orderlist[1][3]
        orders == Del(half.orders, best_price_counterparty)
        keys == SelectSeq(half.keys, LAMBDA k : k # best_price_counterparty)
        n_orders == half.n_orders - 1
        lob_depth == IF best_price_qty = 1
                     THEN IF n_orders > 0
                          THEN Cardinality(DOMAIN half.lob) - 1 ELSE 0
                     ELSE half.lob_depth
        after(built) ==
            [half EXCEPT !.orders = orders, !.keys = keys,
                         !.n_orders = n_orders, !.lob_depth = lob_depth,
                         !.lob = built.lob, !.lob_anon = built.lob_anon,
                         !.best_price = built.best_price,
                         !.best_tid = built.best_tid]
    IN  [half |-> after(BSE_build_lob(orders, keys, half.booktype)),
         value |-> best_price_counterparty]

\* self.tape[-self.tape_length:] with every event kept, whatever the length
Truncated_KeepAll(tape_) == tape_

\* self.tape[-self.tape_length:]
Truncated(tape_) ==
    IF Len(tape_) <= tape_length THEN tape_
    ELSE SubSeq(tape_, Len(tape_) - tape_length + 1, Len(tape_))

\* Exchange.del_order of BSE.py: the exchange after the call, and whether
\* the call ended the session (side neither Bid nor Ask)
BSE_del_order(exch, time, order) ==
    LET cancel_record == [type |-> "Cancel", time |-> time, order |-> order]
        tape1 == Truncated(Append(exch.tape, cancel_record))
    IN  IF order.otype = "Bid"
        THEN [exch |-> [exch EXCEPT !.bids = BSE_book_del(exch.bids, order),
                                    !.tape = tape1],
              abort |-> FALSE]
        ELSE IF order.otype = "Ask"
        THEN [exch |-> [exch EXCEPT !.asks = BSE_book_del(exch.asks, order),
                                    !.tape = tape1],
              abort |-> FALSE]
        ELSE [exch |-> exch, abort |-> TRUE]

\* Exchange.process_order of BSE.py, after add_order: the exchange after
\* the call and the transaction record it returns, or None
BSE_match(exch, time, order) ==
    LET crosses == IF order.otype = "Bid"
                   THEN /\ exch.asks.n_orders > 0
                        /\ exch.bids.best_price[1] >= exch.asks.best_price[1]
                   ELSE /\ exch.bids.n_orders > 0
                        /\ exch.asks.best_price[1] <= exch.bids.best_price[1]
        counterparty == IF order.otype = "Bid" THEN exch.asks.best_tid[1]
                        ELSE exch.bids.best_tid[1]
        price == IF order.otype = "Bid" THEN exch.asks.best_price[1]
                 ELSE exch.bids.best_price[1]
        transaction_record ==
            [type |-> "Trade", time |-> time, price |-> price,
             party1 |-> counterparty, party2 |-> order.tid,
             qty |-> order.qty]
    IN  IF crosses
        THEN [exch |-> [exch EXCEPT
                            !.asks = delete_best(exch.asks).half,
                            !.bids = delete_best(exch.bids).half,
                            !.tape = Truncated(Append(exch.tape,
                                                      transaction_record))],
              value |-> Some(transaction_record)]
        ELSE [exch |-> exch, value |-> None]

BSE_process_order(exch, time, order) ==
    LET matched(added) ==
            BSE_match(added.exch, time,
                      [order EXCEPT !.qid = added.value[1]])
    IN  matched(BSE_add_order(exch, order))

\* no method called yet
NoOut ==
    [op |-> "", returned |-> FALSE, value |-> None, arg |-> None,
     before |-> None, n |-> 0]

Init ==
    /\ lit = Orderbook
    /\ drk = Orderbook
    /\ tape = << >>
    /\ last_trans = None
    /\ trader_recs = << >>
    /\ order_id = 0
    /\ now = 0
    /\ aborted = FALSE
    /\ ret = [tape_summary |-> None, trader_msgs |-> None]
    /\ call = NoCall
    /\ snaps = << >>
    /\ pending = [lit |-> PendingLists, drk |-> PendingLists]
    /\ open = FALSE
    /\ ended_in = ""
    /\ v1 = BSE_Orderbook
    /\ out = NoOut

\* one call of Exchange.process_order(time, order, verbose)
ProcessOrder(time, order) ==
    /\ ~aborted
    /\ call.n < MaxCalls
    /\ \E r \in {process_order(time, order)} :
           /\ lit' = r.lit
           /\ drk' = r.drk
           /\ tape' = r.tape
           /\ last_trans' = r.last_trans
           /\ trader_recs' = r.trader_recs
           /\ order_id' = r.order_id
           /\ aborted' = r.abort
           /\ ret' = r.ret
           /\ call' = [n |-> call.n + 1, time |-> time,
                       returned |-> ~r.abort, order |-> order,
                       after |-> r.order,
                       before |-> [lit |-> lit, drk |-> drk, tape |-> tape],
                       events |-> r.events,
                       log |-> r.log]
           /\ pending' = r.pending
           /\ ended_in' = IF r.abort THEN "process_order" ELSE ""
    /\ now' = time
    /\ UNCHANGED << snaps, open, v1, out >>

\* the times the session driver can make the next call at
NextTimes == {t \in Times : t = now \/ t = now + 1}

\* a trader submits a new order, made by Order(tid, otype, ostyle, price,
\* qty, time, None, -1) at the time of the call
SubmitOrder ==
    \E time \in NextTimes, tid \in Tids, ostyle \in NewStyles,
       price \in Prices, qty \in Qtys :
        ProcessOrder(time, Order(tid, IF tid \in Buyers THEN "Bid" ELSE "Ask",
                                 ostyle, price, qty, time, -1))

\* the session driver cancels a quote: the order comes back with its style
\* set to CAN
SubmitCancel ==
    \E time \in NextTimes, tid \in Tids, otype \in Sides,
       oid \in 0 .. order_id :
        ProcessOrder(time, Order(tid, otype, "CAN", 1, 1, 0, oid))

\* a trader asks to have all of its orders cancelled
SubmitCancelAll ==
    \E time \in NextTimes, tid \in Tids :
        ProcessOrder(time, Order(tid, IF tid \in Buyers THEN "Bid" ELSE "Ask",
                                 "XXX", 1, 1, time, -1))

Next == SubmitOrder \/ SubmitCancel \/ SubmitCancelAll

Spec == Init /\ [][Next]_vars

\* ---- the trading day: pending orders, opening and closing ----------------
PendingStyles == {"LOO", "MOO", "LOC", "MOC"}

\* a style process_order names but Orderbook has no method for (ICE), and
\* a style it does not name
OtherStyles == {"ICE", "STP"}

\* a side that is neither 'Bid' nor 'Ask'
OtherSides == {"Buy"}

\* a trader submits an order to be executed at the open or at the close
SubmitPending ==
    \E time \in NextTimes, tid \in Tids, ostyle \in PendingStyles,
       price \in Prices, qty \in Qtys :
        ProcessOrder(time, Order(tid, IF tid \in Buyers THEN "Bid" ELSE "Ask",
                                 ostyle, price, qty, time, -1))

\* process_order is handed an order whose side is neither Bid nor Ask, or
\* whose style no branch of process_order executes
SubmitOther ==
    \E time \in NextTimes, tid \in Tids, price \in Prices, qty \in Qtys,
       otype \in Sides \cup OtherSides,
       ostyle \in {"LIM", "MKT", "CAN", "LOO"} \cup OtherStyles :
        /\ \/ otype \in OtherSides
           \/ /\ ostyle \in OtherStyles
              /\ otype = IF tid \in Buyers THEN "Bid" ELSE "Ask"
        /\ ProcessOrder(time, Order(tid, otype, ostyle, price, qty, time,
                                    IF ostyle = "CAN" THEN 0 ELSE -1))

\* mkt_open: line 785 calls open_pool(self.lit), a function of three
\* parameters, with one argument; the TypeError leaves Exchange.open and
\* the on_open lists as they were
mkt_open == [open |-> open, pending |-> pending, abort |-> TRUE]

\* mkt_close: line 817 calls close_pool(self.lit), a function of three
\* parameters, with one argument
mkt_close == [open |-> open, pending |-> pending, abort |-> TRUE]

MktOpen ==
    /\ ~aborted
    /\ open' = mkt_open.open
    /\ pending' = mkt_open.pending
    /\ aborted' = mkt_open.abort
    /\ ended_in' = IF mkt_open.abort THEN "mkt_open" ELSE ""
    /\ out' = [op |-> "mkt_open", returned |-> ~mkt_open.abort,
               value |-> None, arg |-> None, before |-> None]
    /\ UNCHANGED << lit, drk, tape, last_trans, trader_recs, order_id, now,
                    ret, call, snaps, v1 >>

MktClose ==
    /\ ~aborted
    /\ open' = mkt_close.open
    /\ pending' = mkt_close.pending
    /\ aborted' = mkt_close.abort
    /\ ended_in' = IF mkt_close.abort THEN "mkt_close" ELSE ""
    /\ out' = [op |-> "mkt_close", returned |-> ~mkt_close.abort,
               value |-> None, arg |-> None, before |-> None]
    /\ UNCHANGED << lit, drk, tape, last_trans, trader_recs, order_id, now,
                    ret, call, snaps, v1 >>

NextDay ==
    \/ SubmitOrder
    \/ SubmitCancel
    \/ SubmitPending
    \/ SubmitOther
    \/ MktOpen
    \/ MktClose

SpecDay == Init /\ [][NextDay]_vars

\* ---- direct calls of the constructors and of book_add; each of the two
\* specifications below is a run of its own ---------------------------------
\* quantities a caller can pass that are not positive
OtherQtys == {-1, 0}

\* Order(...) is called; the constructor has no statement that can fail
MakeOrder ==
    \E tid \in Tids, otype \in Sides \cup OtherSides,
       ostyle \in {"LIM", "STP"}, price \in Prices,
       qty \in Qtys \cup OtherQtys, time \in Times :
        /\ out' = [op |-> "Order", returned |-> TRUE,
                   value |-> Order(tid, otype, ostyle, price, qty, time, -1),
                   arg |-> << tid, otype, ostyle, price, qty, time, -1 >>,
                   before |-> None]
        /\ UNCHANGED << lit, drk, tape, last_trans, trader_recs, order_id,
                        now, aborted, ret, call, snaps, pending, open,
                        ended_in, v1 >>

\* Assignment(...) is called, as customer_orders does for trader tid
MakeAssignment ==
    \E tid \in Tids, otype \in Sides \cup OtherSides,
       ostyle \in {"LIM", "STP"}, price \in Prices,
       qty \in Qtys \cup OtherQtys, time \in Times :
        /\ out' = [op |-> "Assignment", returned |-> TRUE,
                   value |-> Assignment("CUS", tid, otype, ostyle, price, qty,
                                        time, 0),
                   arg |-> << "CUS", tid, otype, ostyle, price, qty, time,
                              0 >>,
                   before |-> None]
        /\ UNCHANGED << lit, drk, tape, last_trans, trader_recs, order_id,
                        now, aborted, ret, call, snaps, pending, open,
                        ended_in, v1 >>

\* book_add of BSE2.py is called on the lit bid half with an order whose id
\* may be live already; line 224 returns None.  BSE.py and BSE2.py are
\* separate programs: a run calls the exchange of one of them
BookAdd ==
    \E tid \in Buyers, price \in Prices, qty \in Qtys, time \in Times,
       oid \in 0 .. MaxAdds - 1 :
        LET order == Order(tid, "Bid", "LIM", price, qty, time, oid)
        IN  /\ v1 = BSE_Orderbook
            /\ lit' = [lit EXCEPT !.bids = book_add(lit.bids, "Bid", order)]
            /\ out' = [op |-> "book_add", returned |-> TRUE, value |-> None,
                       arg |-> order, before |-> lit.bids]
            /\ UNCHANGED << drk, tape, last_trans, trader_recs, order_id,
                            now, aborted, ret, call, snaps, pending, open,
                            ended_in, v1 >>

\* Exchange.add_order of BSE.py is called with a trader's new quote
AddOrder ==
    \E tid \in Tids, price \in Prices, qty \in Qtys, time \in Times :
        LET order == BSE_Order(tid, IF tid \in Buyers THEN "Bid" ELSE "Ask",
                               price, qty, time, -1)
        IN  /\ lit = Orderbook
            /\ v1.quote_id < MaxAdds
            /\ \E r \in {BSE_add_order(v1, order)} :
                   /\ v1' = r.exch
                   /\ out' = [op |-> "add_order", returned |-> TRUE,
                              value |-> r.value, arg |-> order,
                              before |-> IF order.otype = "Bid"
                                         THEN v1.bids ELSE v1.asks]
            /\ UNCHANGED << lit, drk, tape, last_trans, trader_recs,
                            order_id, now, aborted, ret, call, snaps,
                            pending, open, ended_in >>

NextMake == MakeOrder \/ MakeAssignment

SpecMake == Init /\ [][NextMake]_vars

NextAdd == BookAdd \/ AddOrder

SpecAdd == Init /\ [][NextAdd]_vars

\* ---- a session of the exchange of BSE.py --------------------------------
\* the traders of BSE.py, buyers and sellers
BSE_Buyers == 1 .. MaxSameSide
BSE_Sellers == {100 + i : i \in 1 .. MaxSameSide}

\* market_session hands a trader's quote to process_order; every quote of
\* BSE.py is for a quantity of one
ProcessQuote ==
    \E time \in NextTimes, tid \in BSE_Buyers \cup BSE_Sellers,
       price \in Prices :
        LET order == BSE_Order(tid,
                               IF tid \in BSE_Buyers THEN "Bid" ELSE "Ask",
                               price, 1, time, -1)
        IN  /\ out.n < MaxQuotes
            /\ \E r \in {BSE_process_order(v1, time, order)} :
                   /\ v1' = r.exch
                   /\ out' = [op |-> "process_order", returned |-> TRUE,
                              value |-> r.value, arg |-> order,
                              before |-> v1, n |-> out.n + 1]
            /\ now' = time
            /\ UNCHANGED << lit, drk, tape, last_trans, trader_recs,
                            order_id, aborted, ret, call, snaps, pending,
                            open, ended_in >>

\* del_order is called with a trader's last quote: the order that rests at
\* the exchange, or one that rests no more
KillQuote ==
    \E time \in NextTimes, tid \in BSE_Buyers \cup BSE_Sellers :
        ~aborted /\
        LET half == IF tid \in BSE_Buyers THEN v1.bids ELSE v1.asks
            lastquote ==
                IF tid \in DOMAIN half.orders THEN half.orders[tid]
                ELSE BSE_Order(tid,
                               IF tid \in BSE_Buyers THEN "Bid" ELSE "Ask",
                               1, 1, 0, 0)
        IN  /\ out.n < MaxQuotes
            /\ \E r \in {BSE_del_order(v1, time, lastquote)} :
                   /\ v1' = r.exch
                   /\ out' = [op |-> "del_order", returned |-> ~r.abort,
                              value |-> None, arg |-> lastquote,
                              before |-> v1, n |-> out.n + 1]
                   /\ aborted' = (aborted \/ r.abort)
            /\ now' = time
            /\ UNCHANGED << lit, drk, tape, last_trans, trader_recs,
                            order_id, ret, call, snaps, pending,
                            open, ended_in >>

NextV1 == ProcessQuote \/ KillQuote

SpecV1 == Init /\ [][NextV1]_vars

\* quantities on either side of the block-size threshold
EdgeQtys == (block_size - MaxEdge) .. (block_size + MaxEdge - 1)

\* a trader submits a new order of a quantity near the threshold
SubmitEdgeOrder ==
    \E time \in NextTimes, tid \in Tids, ostyle \in NewStyles,
       price \in Prices, qty \in EdgeQtys :
        ProcessOrder(time, Order(tid, IF tid \in Buyers THEN "Bid" ELSE "Ask",
                                 ostyle, price, qty, time, -1))

\* a CAN request that carries a quantity near the threshold
SubmitEdgeCancel ==
    \E time \in NextTimes, tid \in Tids, otype \in Sides,
       oid \in 0 .. order_id, qty \in EdgeQtys :
        ProcessOrder(time, Order(tid, otype, "CAN", 1, qty, 0, oid))

NextDrk == SubmitEdgeOrder \/ SubmitEdgeCancel

SpecDrk == Init /\ [][NextDrk]_vars

\* quantities from the block-size threshold upwards
BlockQtys == block_size .. (block_size + MaxEdge)

\* a trader submits a new order of block size
SubmitBlockOrder ==
    \E time \in NextTimes, tid \in Tids, ostyle \in NewStyles,
       price \in Prices, qty \in BlockQtys :
        ProcessOrder(time, Order(tid, IF tid \in Buyers THEN "Bid" ELSE "Ask",
                                 ostyle, price, qty, time, -1))

\* the session driver cancels a trader's quote that rests at the exchange:
\* the quote is the Order object the exchange holds, so it carries the id
\* the exchange gave it and the quantity the takes so far have left it,
\* and its style is set to CAN
SubmitRestingCancel ==
    \E time \in NextTimes, pname \in {"lit", "drk"}, otype \in Sides :
        LET pool == IF pname = "lit" THEN lit ELSE drk
            half == IF otype = "Bid" THEN pool.bids ELSE pool.asks
        IN  \E oid \in DOMAIN half.orders :
                ProcessOrder(time, [half.orders[oid] EXCEPT !.ostyle = "CAN"])

NextBlk == SubmitBlockOrder \/ SubmitRestingCancel

SpecBlk == Init /\ [][NextBlk]_vars

\* ---- publish_lob --------------------------------------------------------
\* midprice: the quantities may be None; the result is None or a number,
\* written << numerator, denominator >> (( bid_p + ask_p ) / 2.0 is a
\* float).  In Python 2 None > 0 is False.
midprice(bid_p, bid_q, ask_p, ask_q) ==
    LET positive(q) == q # None /\ q[1] > 0
    IN  IF positive(bid_q) /\ ask_q = None THEN Some(<< bid_p, 1 >>)
        ELSE IF positive(ask_q) /\ bid_q = None THEN Some(<< ask_p, 1 >>)
        ELSE IF positive(bid_q) /\ positive(ask_q)
        THEN Some(<< bid_p + ask_p, 2 >>)
        ELSE None

microprice(bid_p, bid_q, ask_p, ask_q) ==
    IF bid_q > 0 /\ ask_q > 0
    THEN Some(((bid_p * ask_q) + (ask_p * bid_q)) \div (bid_q + ask_q))
    ELSE None

\* self.tape[-tape_depth:]
LastOf(list, tape_depth) ==
    IF tape_depth = 0 \/ tape_depth >= Len(list) THEN list
    ELSE SubSeq(list, Len(list) - tape_depth + 1, Len(list))

\* publish_lob(time, tape_depth, verbose); tape_depth is None or Some(n)
publish_lob(time, tape_depth) ==
    LET n_bids == Cardinality(DOMAIN lit.bids.orders)
        n_asks == Cardinality(DOMAIN lit.asks.orders)
        best_bid_p == IF n_bids > 0 THEN Some(lit.bids.lob_anon[1][1])
                      ELSE None
        best_ask_p == IF n_asks > 0 THEN Some(lit.asks.lob_anon[1][1])
                      ELSE None
        both == n_bids > 0 /\ n_asks > 0
    IN  [time |-> time,
         bids |-> [bestp |-> best_bid_p, worstp |-> bse_sys_minprice,
                   n |-> n_bids, lob |-> lit.bids.lob_anon],
         asks |-> [bestp |-> best_ask_p, worstp |-> bse_sys_maxprice,
                   n |-> n_asks, lob |-> lit.asks.lob_anon],
         last_t |-> lit.last_trans,
         last_p |-> lit.last_trans,
         last_q |-> lit.last_trans,
         tape |-> IF tape_depth = None THEN tape
                  ELSE LastOf(tape, tape_depth[1]),
         midprice |-> IF both
                      THEN midprice(best_bid_p[1],
                                    Some(lit.bids.lob_anon[1][2]),
                                    best_ask_p[1],
                                    Some(lit.asks.lob_anon[1][2]))
                      ELSE None,
         microprice |-> IF both
                        THEN microprice(best_bid_p[1],
                                        lit.bids.lob_anon[1][2],
                                        best_ask_p[1],
                                        lit.asks.lob_anon[1][2])
                        ELSE None]

\* the tape_depth arguments: None, or a number of entries
TapeDepths == {None} \cup {Some(n) : n \in 0 .. MaxDepth}

\* a caller asks for the published data and keeps what is returned.  With
\* tape_depth None the 'tape' of the returned dict is self.tape itself
\* (line 1108), with a number it is a new list (the slice of line 1110).
Publish ==
    /\ ~aborted
    /\ Len(snaps) < MaxSnapshots
    /\ \E tape_depth \in TapeDepths :
           snaps' = Append(snaps, [data |-> publish_lob(now, tape_depth),
                                   tape_is_self_tape |-> tape_depth = None])
    /\ UNCHANGED << lit, drk, tape, last_trans, trader_recs, order_id, now,
                    aborted, ret, call, pending, open, ended_in, v1, out >>

\* what a caller reads in the i-th snapshot it holds
Held(i) ==
    [snaps[i].data EXCEPT
        !.tape = IF snaps[i].tape_is_self_tape THEN tape ELSE @]

NextPub == SubmitOrder \/ SubmitCancel \/ SubmitCancelAll \/ Publish

SpecPub == Init /\ [][NextPub]_vars

\* ---- properties ----------------------------------------------------------
Venues == << lit, drk >>

PricesOf(orders) == {orders[o].price : o \in DOMAIN orders}

MaxOf(S) == CHOOSE x \in S : \A y \in S : y <= x

MinOf(S) == CHOOSE x \in S : \A y \in S : x <= y

\* the half of the venue an incoming order of side otype takes from
OppositeHalf(pool, otype) == IF otype = "Bid" THEN pool.asks ELSE pool.bids

\* the events the latest call appended to the tape
NewEvents == SubSeq(tape, Len(call.before.tape) + 1, Len(tape))

\* C1: whenever a call has returned and both the bid side and the ask side
\* of a venue hold live orders, the highest bid price is less than or equal
\* to the lowest ask price.
C1_NoCross ==
    \A v \in 1 .. 2 :
        (/\ ~aborted
         /\ DOMAIN Venues[v].bids.orders # {}
         /\ DOMAIN Venues[v].asks.orders # {})
        => MaxOf(PricesOf(Venues[v].bids.orders))
             <= MinOf(PricesOf(Venues[v].asks.orders))

\* a crossing LIM order has traded and left orders on both sides
C1_Witness ==
    /\ call.returned
    /\ call.order.ostyle \in {"LIM", "GFD"}
    /\ call.log # << >>
    /\ DOMAIN lit.bids.orders # {}
    /\ DOMAIN lit.asks.orders # {}

\* C2: every pass of a take consumes, among the orders resting at the price
\* it trades at, one that no other order at that price with a different
\* arrival time precedes: the earliest-arrived order is consumed first.
C2_TimePriority ==
    \A i \in 1 .. Len(call.log) :
        LET it == call.log[i]
        IN  \A o \in DOMAIN it.book :
                (/\ it.book[o].price = it.rest.price
                 /\ it.book[o].time # it.rest.time)
                => it.rest.time < it.book[o].time

\* a take consumed an order while a later-arrived order rested at its price
C2_Witness ==
    /\ call.returned
    /\ \E i \in 1 .. Len(call.log) :
           \E o \in DOMAIN call.log[i].book :
               /\ call.log[i].book[o].price = call.log[i].rest.price
               /\ call.log[i].book[o].time > call.log[i].rest.time

\* C3: every Trade event a call puts on the tape carries the price of the
\* resting order that was consumed for it.
C3_TradeAtRestingPrice ==
    call.returned =>
        /\ Len(NewEvents) >= Len(call.log)
        /\ \A i \in 1 .. Len(call.log) :
               /\ NewEvents[i].type = "Trade"
               /\ NewEvents[i].price = call.log[i].rest.price
               /\ NewEvents[i].qty = call.log[i].qty

\* an order with a limit price traded at a resting price other than its own
C3_Witness ==
    /\ call.returned
    /\ call.order.ostyle # "MKT"
    /\ \E i \in 1 .. Len(call.log) :
           /\ call.log[i].rest.price # call.order.price
           /\ NewEvents[i].price = call.log[i].rest.price

\* the Trade events among the events the latest call appended to the tape
NewTrades == SelectSeq(NewEvents, LAMBDA e : e.type = "Trade")

\* the total quantity of a sequence of events or of log records
QtyOf(items) == SumSeq([i \in 1 .. Len(items) |-> items[i].qty])

\* the venue the latest call was routed to, now and before the call
CallPool == IF PoolOf(call.order) = "lit" THEN lit ELSE drk

CallPoolBefore ==
    IF PoolOf(call.order) = "lit" THEN call.before.lit ELSE call.before.drk

\* C4: a FOK or AON order either trades its full quantity, or it makes no
\* trade and both books of both venues and the tape are as they were before
\* the call.
C4_FokAonAtomic ==
    (call.n > 0 /\ call.order.ostyle \in {"FOK", "AON"})
    => \/ /\ NewTrades # << >>
          /\ QtyOf(NewTrades) = call.order.qty
       \/ /\ NewTrades = << >>
          /\ lit = call.before.lit
          /\ drk = call.before.drk
          /\ tape = call.before.tape

\* a FOK order was filled by two trades
C4_Witness ==
    /\ call.returned
    /\ call.order.ostyle = "FOK"
    /\ Len(NewTrades) = 2
    /\ QtyOf(NewTrades) = call.order.qty

\* C5: each trade of a take lowers the total live quantity of the resting
\* side by the trade quantity and the incoming order's remaining quantity by
\* the same amount, and the trades of one order never sum to more than its
\* quantity.
C5_QuantityConservation ==
    /\ \A i \in 1 .. Len(call.log) :
           LET it == call.log[i]
           IN  /\ it.rest_before - it.rest_after = it.qty
               /\ it.rem_before - it.rem_after = it.qty
               /\ it.rem_before = IF i = 1 THEN call.order.qty
                                  ELSE call.log[i - 1].rem_after
               /\ it.rest_before =
                      IF i = 1
                      THEN SumQty(OppositeHalf(CallPoolBefore,
                                               call.order.otype).orders)
                      ELSE call.log[i - 1].rest_after
    /\ QtyOf(call.log) <= call.order.qty
    /\ call.returned =>
           /\ Len(NewTrades) = Len(call.log)
           /\ \A i \in 1 .. Len(call.log) :
                  NewTrades[i].qty = call.log[i].qty
           /\ call.order.ostyle # "CAN" =>
                  SumQty(OppositeHalf(CallPool, call.order.otype).orders)
                    = SumQty(OppositeHalf(CallPoolBefore,
                                          call.order.otype).orders)
                      - QtyOf(NewTrades)

\* an order walked the book in two trades
C5_Witness ==
    /\ call.returned
    /\ Len(call.log) = 2
    /\ QtyOf(NewTrades) = 2

\* the rows of a book are in strictly descending (bids) or strictly
\* ascending (asks) price order, each row's entries in non-decreasing
\* arrival-time order
Ordered(half, booktype) ==
    /\ \A i, j \in 1 .. Len(half.lob) :
           i < j => IF booktype = "Bid" THEN half.lob[i][1] > half.lob[j][1]
                    ELSE half.lob[i][1] < half.lob[j][1]
    /\ \A r \in 1 .. Len(half.lob) :
           \A i, j \in 1 .. Len(half.lob[r][2]) :
               i < j => half.lob[r][2][i][1] <= half.lob[r][2][j][1]

\* C6: in every state the bid rows of each venue are in strictly descending
\* price order and the ask rows in strictly ascending price order, and the
\* entries of each row are in non-decreasing arrival-time order.
C6_BookOrdered ==
    \A v \in 1 .. 2 :
        /\ Ordered(Venues[v].bids, "Bid")
        /\ Ordered(Venues[v].asks, "Ask")

\* the bid book has two price rows, one of them with two entries that
\* arrived at different times
C6_Witness ==
    /\ call.returned
    /\ Len(lit.bids.lob) = 2
    /\ \E r \in 1 .. 2 :
           /\ Len(lit.bids.lob[r][2]) = 2
           /\ lit.bids.lob[r][2][1][1] < lit.bids.lob[r][2][2][1]

\* the live orders of a dict that rest at price p
AtPrice(orders, p) ==
    [o \in {x \in DOMAIN orders : orders[x].price = p} |-> orders[o]]

\* the published depth of one side agrees with the live orders of that side
DepthAgrees(side, orders, booktype) ==
    /\ Len(side.lob) = Cardinality(PricesOf(orders))
    /\ {side.lob[i][1] : i \in 1 .. Len(side.lob)} = PricesOf(orders)
    /\ \A i \in 1 .. Len(side.lob) :
           side.lob[i][2] = SumQty(AtPrice(orders, side.lob[i][1]))
    /\ side.bestp =
           IF DOMAIN orders = {} THEN None ELSE Some(side.lob[1][1])
    /\ DOMAIN orders # {} =>
           side.lob[1][1] = IF booktype = "Bid" THEN MaxOf(PricesOf(orders))
                            ELSE MinOf(PricesOf(orders))

\* C7: the depth publish_lob returns for each side of the lit book has one
\* entry for each price at which a live order rests, with the sum of the
\* quantities of the live orders at that price, and its first entry is the
\* best price, reported as bestp.
C7_DepthRoundTrip ==
    ~aborted =>
        /\ DepthAgrees(publish_lob(now, None).bids, lit.bids.orders, "Bid")
        /\ DepthAgrees(publish_lob(now, None).asks, lit.asks.orders, "Ask")

\* the published ask depth has two prices, one of them with two live orders
C7_Witness ==
    /\ call.returned
    /\ Len(publish_lob(now, None).asks.lob) = 2
    /\ \E p \in Prices :
           Cardinality(DOMAIN AtPrice(lit.asks.orders, p)) = 2

\* the entries of the rows of a book, each with the price of its row
EntriesOf(half) ==
    UNION {{<< half.lob[r][1], half.lob[r][2][i] >> :
                i \in 1 .. Len(half.lob[r][2])} : r \in 1 .. Len(half.lob)}

\* no order twice in one row
RowsDistinct(half) ==
    \A r \in 1 .. Len(half.lob) :
        \A i, j \in 1 .. Len(half.lob[r][2]) :
            i # j => half.lob[r][2][i][4] # half.lob[r][2][j][4]

BookMatchesOrders(half) ==
    /\ {e[2][4] : e \in EntriesOf(half)} = DOMAIN half.orders
    /\ RowsDistinct(half)
    /\ Cardinality(EntriesOf(half)) = Cardinality(DOMAIN half.orders)
    /\ \A e \in EntriesOf(half) :
           /\ e[2][4] \in DOMAIN half.orders
           /\ half.orders[e[2][4]].time = e[2][1]
           /\ half.orders[e[2][4]].qty = e[2][2]
           /\ half.orders[e[2][4]].tid = e[2][3]
           /\ half.orders[e[2][4]].orderid = e[2][4]
           /\ half.orders[e[2][4]].price = e[1]

\* C8: on each side of each venue the order ids in the price-ordered book
\* are the keys of the live-order record, and each entry's quantity,
\* participant and arrival time are those of the live order with its id.
C8_BookMatchesOrders ==
    ~aborted =>
        \A v \in 1 .. 2 :
            /\ BookMatchesOrders(Venues[v].bids)
            /\ BookMatchesOrders(Venues[v].asks)

\* a cancel removed one of two orders resting on a side
C8_Witness ==
    /\ call.returned
    /\ call.order.ostyle = "CAN"
    /\ \E otype \in Sides :
           /\ Cardinality(DOMAIN OppositeHalf(call.before.lit, otype).orders)
                = 2
           /\ Cardinality(DOMAIN OppositeHalf(lit, otype).orders) = 1

\* the messages the latest call returned
ReturnedMsgs ==
    IF ret.trader_msgs = None THEN << >> ELSE ret.trader_msgs[1]

\* C9: a resting order that a take consumes only in part stays on the book
\* under its order id, with its price, arrival time and owner and with its
\* quantity lowered by the traded amount, and its owner is sent a PART
\* message that carries the revised order.
C9_PartialFillKeepsOrder ==
    call.returned =>
        \A i \in 1 .. Len(call.log) :
            LET it == call.log[i]
                h == OppositeHalf(CallPool, call.order.otype)
            IN  it.rest.qty > it.qty =>
                    /\ it.oid \in DOMAIN h.orders
                    /\ h.orders[it.oid] =
                           [it.rest EXCEPT !.qty = it.rest.qty - it.qty]
                    /\ \E m \in 1 .. Len(ReturnedMsgs) :
                           /\ ReturnedMsgs[m].tid = it.rest.tid
                           /\ ReturnedMsgs[m].oid = it.oid
                           /\ ReturnedMsgs[m].event = "PART"
                           /\ ReturnedMsgs[m].revo = Some(h.orders[it.oid])

\* a take consumed part of a resting order
C9_Witness ==
    /\ call.returned
    /\ \E i \in 1 .. Len(call.log) : call.log[i].rest.qty > call.log[i].qty

\* the latest call was an order the market could not satisfy: a FOK or AON
\* with too little depth at its price, an IOC with none, or a take against
\* an empty opposite side
Unsatisfiable ==
    /\ call.n > 0
    /\ call.order.ostyle \in {"MKT", "IOC", "FOK", "AON"}
    /\ LET h == OppositeHalf(CallPoolBefore, call.order.otype)
           depth == DepthFrom(h.lob_anon,
                              IF call.order.otype = "Bid" THEN "Ask"
                              ELSE "Bid",
                              call.order.price, 1)
       IN  \/ Len(h.lob) = 0
           \/ call.order.ostyle \in {"FOK", "AON"} /\ depth < call.order.qty
           \/ call.order.ostyle = "IOC" /\ depth < 1

\* C10: an order the market cannot satisfy is answered with one FAIL message
\* to its participant and does not end the session.
C10_RejectionIsFail ==
    Unsatisfiable =>
        /\ ~aborted
        /\ call.returned
        /\ Len(ReturnedMsgs) = 1
        /\ ReturnedMsgs[1].event = "FAIL"
        /\ ReturnedMsgs[1].tid = call.order.tid

\* the half of a pool that holds the orders of side otype
SameHalf(pool, otype) == IF otype = "Bid" THEN pool.bids ELSE pool.asks

\* the latest call was a CAN whose order id was live on the side it names,
\* in the venue the request went to
CancelOfLiveOrder ==
    /\ call.n > 0
    /\ call.order.ostyle = "CAN"
    /\ call.order.orderid
          \in DOMAIN SameHalf(CallPoolBefore, call.order.otype).orders

\* C11: a CAN whose order id is live on the side it names removes exactly
\* that order, leaves the other side of the venue and the other venue as
\* they were, returns one CAN message, and appends to the tape exactly one
\* CAN event with the time of the call, the order id, the side, and the
\* quantity the order had left.
C11_CancelFrame ==
    CancelOfLiveOrder =>
        LET oid == call.order.orderid
            side == call.order.otype
            was == SameHalf(CallPoolBefore, side).orders
            left == SameHalf(CallPool, side).orders
        IN  /\ call.returned
            /\ DOMAIN left = DOMAIN was \ {oid}
            /\ \A o \in DOMAIN left : left[o] = was[o]
            /\ OppositeHalf(CallPool, side)
                  = OppositeHalf(CallPoolBefore, side)
            /\ IF PoolOf(call.order) = "lit" THEN drk = call.before.drk
               ELSE lit = call.before.lit
            /\ Len(ReturnedMsgs) = 1
            /\ ReturnedMsgs[1].event = "CAN"
            /\ ReturnedMsgs[1].oid = oid
            /\ Len(tape) = Len(call.before.tape) + 1
            /\ SubSeq(tape, 1, Len(call.before.tape)) = call.before.tape
            /\ LET e == tape[Len(tape)]
               IN  /\ e.type = "CAN"
                   /\ e.time = call.time
                   /\ e.oid = oid
                   /\ e.otype = side
                   /\ e.o_qty = was[oid].qty

\* a CAN took one of several orders resting on the same side
C11_Witness ==
    /\ CancelOfLiveOrder
    /\ call.returned
    /\ Cardinality(DOMAIN SameHalf(CallPool, call.order.otype).orders) > 0
    /\ tape[Len(tape)].type = "CAN"

\* the latest call was a CAN whose order id was not live on the side it
\* names, in the venue the request went to
CancelOfMissingOrder ==
    /\ call.n > 0
    /\ call.order.ostyle = "CAN"
    /\ call.order.orderid
          \notin DOMAIN SameHalf(CallPoolBefore, call.order.otype).orders

\* C12: a CAN whose order id is not live on the side it names ends the
\* session: the call does not return, both venues keep every order they had
\* and the tape gets no event.
C12_CancelMissingIsFatal ==
    CancelOfMissingOrder =>
        /\ aborted
        /\ ~call.returned
        /\ lit = call.before.lit
        /\ drk = call.before.drk
        /\ tape = call.before.tape

\* a CAN named an order id that was live on the other side of the venue
C12_Witness ==
    /\ CancelOfMissingOrder
    /\ aborted
    /\ call.order.orderid
          \in DOMAIN OppositeHalf(CallPoolBefore, call.order.otype).orders

\* the order ids that are keys of the order dict of a half
IdsOf(half) == DOMAIN half.orders

\* the four halves of the two venues
Halves == << lit.bids, lit.asks, drk.bids, drk.asks >>

\* every live order is filed under its own id, the id was handed out before,
\* and no id is live in two halves
LiveIdsUnique ==
    /\ \A i \in 1 .. 4 : \A o \in IdsOf(Halves[i]) :
           /\ Halves[i].orders[o].orderid = o
           /\ o >= 0
           /\ o < order_id
    /\ \A i, j \in 1 .. 4 : i # j => IdsOf(Halves[i]) \cap IdsOf(Halves[j]) = {}

\* one call: a CAN or XXX request leaves the allocator alone, any other
\* order is stamped with the allocator's value, which then goes up by one
IdStep ==
    IF call'.order.ostyle \in {"CAN", "XXX"}
    THEN order_id' = order_id
    ELSE /\ call'.after.orderid = order_id
         /\ order_id' = order_id + 1

\* C13: ids start at 0; every order that is not a CAN or XXX request is
\* stamped with the next id, one more than the one stamped before; CAN and
\* XXX requests use up no id; and no two live orders share an id.
C13_OrderIds ==
    /\ order_id = 0
    /\ [][IdStep]_vars
    /\ []LiveIdsUnique

\* the third call was stamped 1: one of the two calls before it was a CAN
C13_Witness ==
    /\ call.n = 3
    /\ call.order.ostyle \notin {"CAN", "XXX"}
    /\ call.after.orderid = 1
    /\ call.returned

\* one step: the tape before the step is a prefix of the tape after it; a
\* call that returns has appended the events the venue returned, in their
\* order; a publish_lob call leaves the tape as it was
TapeStep ==
    /\ Len(tape') >= Len(tape)
    /\ SubSeq(tape', 1, Len(tape)) = tape
    /\ (call'.n # call.n /\ call'.returned) => tape' = tape \o call'.events
    /\ snaps' # snaps => tape' = tape

\* C14: the tape only grows: every event a venue returns is appended, in
\* the order it was produced, by the time process_order returns, and no
\* process_order or publish_lob call changes or removes an earlier entry.
C14_TapeAppendOnly == [][TapeStep]_vars

\* a call added an event to a tape that already held one, in a session in
\* which publish_lob was called too
C14_Witness ==
    /\ call.returned
    /\ Len(call.before.tape) >= 1
    /\ Len(call.events) >= 1
    /\ Len(tape) > Len(call.before.tape)
    /\ Len(snaps) = 1

\* the venue an order of the latest call's quantity belongs to, and the
\* other one, as they were before the call
OwnVenueBefore ==
    IF call.order.qty < block_size THEN call.before.lit ELSE call.before.drk

OtherVenueBefore ==
    IF call.order.qty < block_size THEN call.before.drk ELSE call.before.lit

OtherVenue == IF call.order.qty < block_size THEN drk ELSE lit

CostOf(items) ==
    SumSeq([i \in 1 .. Len(items) |-> items[i].price * items[i].qty])

\* C16: when a call produces Trade events its tape_summary has the total
\* traded quantity as qty and the volume-weighted average of the trade
\* prices as price (price * qty equals the sum of price * quantity over the
\* trades); when it produces none the summary is None.
C16_SummaryIsVwap ==
    (call.n > 0 /\ call.returned) =>
        IF Len(NewTrades) = 0 THEN ret.tape_summary = None
        ELSE /\ ret.tape_summary # None
             /\ ret.tape_summary[1].qty = QtyOf(NewTrades)
             /\ ret.tape_summary[1].price * QtyOf(NewTrades)
                   = CostOf(NewTrades)

\* the best price among the live orders of one side of the lit book
BestBid == MaxOf(PricesOf(lit.bids.orders))

BestAsk == MinOf(PricesOf(lit.asks.orders))

\* the number m, written << numerator, denominator >>, equals a / b
IsQuotient(m, a, b) == m # None /\ m[1][1] * b = a * m[1][2]

\* C17: the midprice publish_lob reports is the mean of best bid and best
\* ask when both sides of the lit book hold orders, the one best price there
\* is when exactly one side holds orders, and None only when both are empty.
C17_Midprice ==
    ~aborted =>
        LET m == publish_lob(now, None).midprice
            bids == DOMAIN lit.bids.orders # {}
            asks == DOMAIN lit.asks.orders # {}
        IN  /\ (bids /\ asks) => IsQuotient(m, BestBid + BestAsk, 2)
            /\ (bids /\ ~asks) => IsQuotient(m, BestBid, 1)
            /\ (~bids /\ asks) => IsQuotient(m, BestAsk, 1)
            /\ (~bids /\ ~asks) => m = None

\* total quantity of the live orders of one side at that side's best price
BestBidQty == SumQty(AtPrice(lit.bids.orders, BestBid))

BestAskQty == SumQty(AtPrice(lit.asks.orders, BestAsk))

\* C18: the microprice publish_lob reports is (bid_p*ask_q + ask_p*bid_q)
\* / (bid_q + ask_q) over the best prices of the lit book and the total
\* quantities at them, and None when either side is empty.
C18_Microprice ==
    ~aborted =>
        LET m == publish_lob(now, None).microprice
        IN  IF DOMAIN lit.bids.orders # {} /\ DOMAIN lit.asks.orders # {}
            THEN /\ m # None
                 /\ m[1] * (BestBidQty + BestAskQty)
                       = BestBid * BestAskQty + BestAsk * BestBidQty
            ELSE m = None

\* the last n entries of a list, n >= 0
LastEntries(list, n) ==
    IF n >= Len(list) THEN list
    ELSE SubSeq(list, Len(list) - n + 1, Len(list))

\* C19: publish_lob with a depth limit n >= 0 returns the last min(n,
\* length of the tape) entries of the tape in the tape's order, and the
\* whole tape when the limit is None.
C19_TapeDepth ==
    ~aborted =>
        /\ publish_lob(now, None).tape = tape
        /\ \A n \in 0 .. MaxDepth :
               publish_lob(now, Some(n)).tape = LastEntries(tape, n)

\* one step leaves what the caller reads in every snapshot it holds as it
\* was: time, best prices, depth lists, last trade, tape, mid and microprice
SnapshotsKept == \A i \in 1 .. Len(snaps) : Held(i)' = Held(i)

\* C20: what publish_lob returned is a copy: no later process_order call
\* changes the best prices, the depth lists or the tape entries of a
\* snapshot a caller holds, whatever tape depth it was asked with.
C20_SnapshotIsCopy == [][SnapshotsKept]_vars

\* the four halves as they were before the latest call
HalvesBefore ==
    << call.before.lit.bids, call.before.lit.asks,
       call.before.drk.bids, call.before.drk.asks >>

\* the orders of a half that participant tid does not own
OrdersOfOthers(half, tid) ==
    [o \in {i \in IdsOf(half) : half.orders[i].tid # tid} |-> half.orders[o]]

\* C21: after an XXX request from a participant the call has returned, no
\* half of either venue holds an order of that participant, and the orders
\* of every other participant are as they were before the call.
C21_CancelAll ==
    (call.n > 0 /\ call.order.ostyle = "XXX") =>
        /\ ~aborted
        /\ call.returned
        /\ \A i \in 1 .. 4 :
               /\ \A o \in IdsOf(Halves[i]) :
                      Halves[i].orders[o].tid # call.order.tid
               /\ OrdersOfOthers(Halves[i], call.order.tid)
                      = OrdersOfOthers(HalvesBefore[i], call.order.tid)

\* C22: a call with an AON order returns to the session, which goes on, and
\* an AON order that made no trade leaves no entry on the tape.
C22_AonIsRetried ==
    (call.n > 0 /\ call.order.ostyle = "AON") =>
        /\ ~aborted
        /\ call.returned
        /\ (NewTrades = << >> => NewEvents = << >>)

\* every order that waits on an on_open or on_close list
PendingOrders ==
    UNION {{l[i] : i \in 1 .. Len(l)} :
           l \in UNION {{pending[v].bids.on_open, pending[v].bids.on_close,
                         pending[v].asks.on_open, pending[v].asks.on_close} :
                        v \in {"lit", "drk"}}}

\* the list of the venue and side the latest call's order goes to
CallPendingList ==
    LET lists == IF call.order.otype = "Bid"
                 THEN pending[PoolOf(call.order)].bids
                 ELSE pending[PoolOf(call.order)].asks
    IN  IF call.order.ostyle \in {"LOO", "MOO"}
        THEN lists.on_open ELSE lists.on_close

\* C23: a call with an LOO, MOO, LOC or MOC order returns with the order
\* last on its pending list, no event on the tape and both venues' books as
\* they were before the call.
C23_PendingIsQueued ==
    (call.n > 0 /\ call.order.ostyle \in PendingStyles
     /\ call.order.otype \in Sides) =>
        /\ ~aborted
        /\ call.returned
        /\ Len(CallPendingList) > 0
        /\ CallPendingList[Len(CallPendingList)] = call.after
        /\ NewEvents = << >>
        /\ lit = call.before.lit
        /\ drk = call.before.drk

\* C24: once mkt_close has been called it has returned, the venue is not
\* open, and no order of style GFD rests on any half of either venue.
C24_CloseCancelsGfd ==
    out.op = "mkt_close" =>
        /\ out.returned
        /\ ~aborted
        /\ ~open
        /\ \A i \in 1 .. 4 : \A o \in IdsOf(Halves[i]) :
               Halves[i].orders[o].ostyle # "GFD"

\* the styles some branch of process_order names
KnownStyles ==
    {"CAN", "XXX", "LIM", "GFD", "MKT", "AON", "FOK", "IOC",
     "LOC", "MOC", "LOO", "MOO", "OCO", "OSO", "ICE"}

\* C26: a call of process_order with an order whose style no branch names,
\* or whose side is neither Bid nor Ask, ends the session without returning:
\* the books of both venues and the tape are as they were before the call
\* (the order neither rests nor trades) and the order waits on no pending
\* list.
C26_BadOrderAborts ==
    (call.n > 0 /\ (call.order.ostyle \notin KnownStyles
                    \/ call.order.otype \notin Sides)) =>
        /\ aborted
        /\ ~call.returned
        /\ ended_in = "process_order"
        /\ lit = call.before.lit
        /\ drk = call.before.drk
        /\ tape = call.before.tape
        /\ \A o \in PendingOrders :
               o.otype \in Sides /\ o.ostyle \in PendingStyles

\* a LIM order whose side is neither Bid nor Ask was handed to process_order
\* while the lit bid book held an order, and the session ended
C26_Witness ==
    /\ call.n > 1
    /\ call.order.ostyle = "LIM"
    /\ call.order.otype \notin Sides
    /\ IdsOf(call.before.lit.bids) # {}
    /\ aborted

\* the latest call made an Order or an Assignment from a quantity that is
\* not positive, or from a side or a style that is not a recognised token
MadeFromBadFields ==
    \/ /\ out.op = "Order"
       /\ \/ out.arg[5] <= 0
          \/ out.arg[2] \notin Sides
          \/ out.arg[3] \notin KnownStyles
    \/ /\ out.op = "Assignment"
       /\ \/ out.arg[6] <= 0
          \/ out.arg[3] \notin Sides
          \/ out.arg[4] \notin KnownStyles

\* C25 as stated: making an Order or an Assignment from a quantity that is
\* not positive, or from an unrecognised side or style, does not return a
\* record.
C25_ConstructorRejects == MadeFromBadFields => ~out.returned

\* C25: the constructors of Order and Assignment check nothing: each call
\* returns a record that holds the values it was given, whatever the
\* quantity, the side and the style.
C25_ConstructorKeepsFields ==
    /\ out.op = "Order" =>
           /\ out.returned
           /\ out.value = [tid |-> out.arg[1], otype |-> out.arg[2],
                           ostyle |-> out.arg[3], price |-> out.arg[4],
                           qty |-> out.arg[5], time |-> out.arg[6],
                           orderid |-> out.arg[7]]
    /\ out.op = "Assignment" =>
           /\ out.returned
           /\ out.value = [cust_id |-> out.arg[1], trad_id |-> out.arg[2],
                           atype |-> out.arg[3], astyle |-> out.arg[4],
                           price |-> out.arg[5], qty |-> out.arg[6],
                           time |-> out.arg[7], assignmentid |-> out.arg[8]]

\* an Order was made from a quantity of zero, a side that is neither Bid nor
\* Ask and a style no branch of process_order names
C25_Witness ==
    /\ out.op = "Order"
    /\ out.returned
    /\ out.arg[5] = 0
    /\ out.arg[2] \notin Sides
    /\ out.arg[3] \notin KnownStyles

\* the half the latest direct add went to, as it is now
AddedHalf ==
    IF out.op = "book_add" THEN lit.bids
    ELSE IF out.arg.otype = "Bid" THEN v1.bids ELSE v1.asks

\* the key the latest direct add stored its order under: the order id in
\* BSE2.py, the trader id in BSE.py
AddedKey == IF out.op = "book_add" THEN out.arg.orderid ELSE out.arg.tid

\* the order as the latest direct add stored it: add_order of BSE.py stamps
\* the quote id it returns
AddedOrder ==
    IF out.op = "book_add" THEN out.arg
    ELSE [out.arg EXCEPT !.qid = out.value[1]]

\* what the latest direct add told its caller about the addition: a list
\* with the string 'Addition' or 'Overwrite', empty when None was returned
AddedResponse ==
    IF out.op = "book_add" THEN out.value ELSE << out.value[2] >>

\* the order is stored under its key, every other key holds what it held,
\* and the number of live orders grew by one when the key was free and is
\* the same when the key was taken
AddStores ==
    /\ DOMAIN AddedHalf.orders = DOMAIN out.before.orders \cup {AddedKey}
    /\ AddedHalf.orders[AddedKey] = AddedOrder
    /\ \A k \in DOMAIN out.before.orders \ {AddedKey} :
           AddedHalf.orders[k] = out.before.orders[k]
    /\ Cardinality(DOMAIN AddedHalf.orders)
           = Cardinality(DOMAIN out.before.orders)
             + (IF AddedKey \in DOMAIN out.before.orders THEN 0 ELSE 1)

\* the return value is 'Addition' for a free key and 'Overwrite' for a
\* taken one
AddTells ==
    AddedResponse = IF AddedKey \in DOMAIN out.before.orders
                    THEN << "Overwrite" >> ELSE << "Addition" >>

\* C27 as stated: book_add stores the order under its key in place of any
\* order that was there, and its return value tells a fresh addition from
\* an overwrite.
C27_AddTellsCaller ==
    out.op \in {"book_add", "add_order"} => (AddStores /\ AddTells)

\* C27: book_add stores the order under its key (order id in BSE2.py,
\* trader id in BSE.py) in place of any order that was there, and the number
\* of live orders grows by one for a free key and stays for a taken one; in
\* BSE.py the return value is 'Addition' or 'Overwrite' accordingly, in
\* BSE2.py it is None either way.
C27_AddStoresUnderKey ==
    /\ out.op = "add_order" => (AddStores /\ AddTells)
    /\ out.op = "book_add" => (AddStores /\ AddedResponse = None)

\* add_order of BSE.py was given a quote of a trader whose earlier quote was
\* still on that side
C27_Witness ==
    /\ out.op = "add_order"
    /\ out.arg.tid \in DOMAIN out.before.orders
    /\ out.value[2] = "Overwrite"

\* C30: a MKT order that has returned either traded its full quantity or
\* left the opposite side of its venue empty, whatever its price field.
C30_MktFillsOrEmpties ==
    (call.n > 0 /\ call.order.ostyle = "MKT" /\ call.returned) =>
        \/ QtyOf(NewTrades) = call.order.qty
        \/ IdsOf(OppositeHalf(CallPool, call.order.otype)) = {}

\* C28: a call of process_order adds a ledger record for the participant of
\* its order when there was none, with the time of the call as registration
\* time; every record there was stays under its participant id with its
\* registration time, and no other record appears.
C28_Registration ==
    [][/\ DOMAIN trader_recs'
              = DOMAIN trader_recs
                \cup (IF call'.n # call.n THEN {call'.order.tid} ELSE {})
       /\ \A t \in DOMAIN trader_recs :
              /\ trader_recs'[t].tid = t
              /\ trader_recs'[t].regtime = trader_recs[t].regtime
       /\ \A t \in DOMAIN trader_recs' \ DOMAIN trader_recs :
              /\ trader_recs'[t].tid = t
              /\ trader_recs'[t].regtime = call'.time]_vars

\* two participants are registered at different times, and the one that was
\* registered first has made a later call, a cancel that ended the session,
\* at a time after its registration
C28_Witness ==
    /\ call.n = 3
    /\ call.order.ostyle = "CAN"
    /\ aborted
    /\ call.order.tid \in DOMAIN trader_recs
    /\ trader_recs[call.order.tid].regtime < call.time
    /\ \E t \in DOMAIN trader_recs :
           trader_recs[t].regtime > trader_recs[call.order.tid].regtime

\* the latest call's order, a LIM or GFD, met an opposite side whose best
\* price it reaches: a bid at or above the best ask, an ask at or below the
\* best bid
LimitReachesBest ==
    LET opp == OppositeHalf(CallPoolBefore, call.order.otype).orders
    IN  /\ DOMAIN opp # {}
        /\ IF call.order.otype = "Bid"
           THEN call.order.price >= MinOf(PricesOf(opp))
           ELSE call.order.price <= MaxOf(PricesOf(opp))

\* C29: a LIM or GFD order that does not reach the opposite best price (or
\* finds the opposite side empty) is added to its own side under its new
\* id with its style, price and quantity, the opposite side stays as it
\* was and no event is written; one that reaches the opposite best price is
\* made an IOC order, is not added to its own side, and trades at least
\* once against the opposite side.
C29_LimRestsOrTakes ==
    (call.n > 0 /\ call.order.ostyle \in {"LIM", "GFD"}) =>
        /\ call.returned
        /\ IF ~LimitReachesBest
           THEN /\ call.after.ostyle = call.order.ostyle
                /\ SameHalf(CallPool, call.order.otype).orders
                       = Put(SameHalf(CallPoolBefore, call.order.otype).orders,
                             call.after.orderid,
                             [call.order EXCEPT
                                  !.orderid = call.after.orderid])
                /\ call.after.orderid
                       \notin IdsOf(SameHalf(CallPoolBefore,
                                             call.order.otype))
                /\ OppositeHalf(CallPool, call.order.otype)
                       = OppositeHalf(CallPoolBefore, call.order.otype)
                /\ NewEvents = << >>
                /\ ret.trader_msgs = None
           ELSE /\ call.after.ostyle = "IOC"
                /\ SameHalf(CallPool, call.order.otype)
                       = SameHalf(CallPoolBefore, call.order.otype)
                /\ Len(NewTrades) >= 1
                /\ NewTrades = NewEvents
                /\ QtyOf(NewTrades) <= call.order.qty
                /\ QtyOf(NewTrades)
                       = SumQty(OppositeHalf(CallPoolBefore,
                                             call.order.otype).orders)
                         - SumQty(OppositeHalf(CallPool,
                                               call.order.otype).orders)

\* a GFD bid below the best ask was added to a bid side that held an order
C29_Witness ==
    /\ call.n > 0
    /\ call.order.ostyle = "GFD"
    /\ call.order.otype = "Bid"
    /\ IdsOf(call.before.lit.asks) # {}
    /\ IdsOf(call.before.lit.bids) # {}
    /\ ~LimitReachesBest
    /\ call.after.orderid \in IdsOf(lit.bids)

\* a LIM ask at the best bid was executed as an IOC order and left a part
\* of its quantity untraded
C29_WitnessTake ==
    /\ call.n > 0
    /\ call.order.ostyle = "LIM"
    /\ call.order.otype = "Ask"
    /\ LimitReachesBest
    /\ call.after.ostyle = "IOC"
    /\ QtyOf(NewTrades) < call.order.qty

\* the latest call's order was handled as an IOC order: it came as one, or
\* it came as a LIM or GFD order and was made one
HandledAsIoc == call.n > 0 /\ call.after.ostyle = "IOC"

\* price p of the resting side is acceptable to the latest call's order: not
\* above the price of a bid, not below the price of an ask
Acceptable(p) ==
    IF call.order.otype = "Bid" THEN p <= call.order.price
    ELSE p >= call.order.price

\* the messages of the latest call that are about its own order
OwnMsgs == SelectSeq(ReturnedMsgs, LAMBDA m : m.oid = call.after.orderid)

\* C31: an order handled as IOC trades at acceptable prices only; when it
\* has traded less than its quantity, the opposite side is empty or its best
\* price is not acceptable; when it traded a part it is sent PART with a
\* revised order whose quantity is the original quantity less the traded
\* quantity, and when it traded nothing it is sent FAIL.
C31_IocStopsAtLimit ==
    HandledAsIoc =>
        LET traded == QtyOf(NewTrades)
            opp == OppositeHalf(CallPool, call.order.otype).orders
        IN  /\ call.returned
            /\ \A i \in 1 .. Len(NewTrades) : Acceptable(NewTrades[i].price)
            /\ traded <= call.order.qty
            /\ traded < call.order.qty =>
                   \/ DOMAIN opp = {}
                   \/ ~Acceptable(IF call.order.otype = "Bid"
                                  THEN MinOf(PricesOf(opp))
                                  ELSE MaxOf(PricesOf(opp)))
            /\ (0 < traded /\ traded < call.order.qty) =>
                   /\ Len(OwnMsgs) = 1
                   /\ OwnMsgs[1].event = "PART"
                   /\ OwnMsgs[1].tid = call.order.tid
                   /\ OwnMsgs[1].revo # None
                   /\ OwnMsgs[1].revo[1].qty = call.order.qty - traded
                   /\ OwnMsgs[1].revo[1].orderid = call.after.orderid
            /\ traded = 0 =>
                   /\ Len(OwnMsgs) = 1
                   /\ OwnMsgs[1].event = "FAIL"
                   /\ OwnMsgs[1].tid = call.order.tid

\* an IOC bid for two traded one at its limit and stopped at a best ask
\* above its limit
C31_Witness ==
    /\ HandledAsIoc
    /\ call.order.ostyle = "IOC"
    /\ call.order.otype = "Bid"
    /\ call.order.qty = 2
    /\ QtyOf(NewTrades) = 1
    /\ IdsOf(lit.asks) # {}
    /\ MinOf(PricesOf(lit.asks.orders)) > call.order.price

\* C32: after a call with a LIM or GFD order that reached the opposite best
\* price has returned, no half of either venue holds an order under the id
\* the call gave that order.
C32_CrossingLimNeverRests ==
    (call.n > 0 /\ call.order.ostyle \in {"LIM", "GFD"} /\ LimitReachesBest
     /\ call.returned) =>
        \A i \in 1 .. 4 : call.after.orderid \notin IdsOf(Halves[i])

\* a GFD bid for two reached the best ask, traded one and is on no book
C32_Witness ==
    /\ call.n > 0
    /\ call.returned
    /\ call.order.ostyle = "GFD"
    /\ call.order.otype = "Bid"
    /\ call.order.qty = 2
    /\ LimitReachesBest
    /\ QtyOf(NewTrades) = 1
    /\ call.after.qty = 1

\* the latest call was a CAN that carried the id, the side and the quantity
\* of an order that was resting in one of the venues
CancelOfRestingOrder ==
    /\ call.n > 0
    /\ call.order.ostyle = "CAN"
    /\ \E pool \in {call.before.lit, call.before.drk} :
           LET orders == SameHalf(pool, call.order.otype).orders
           IN  /\ call.order.orderid \in DOMAIN orders
               /\ orders[call.order.orderid].qty = call.order.qty

\* C33: a CAN that carries the id, the side and the current quantity of a
\* resting order returns, and the order is on no book afterwards.
C33_RestingCanBeCancelled ==
    CancelOfRestingOrder =>
        /\ call.returned
        /\ ~aborted
        /\ \A i \in 1 .. 4 : call.order.orderid \notin IdsOf(Halves[i])

\* the Trade events on the consolidated tape
TapeTrades == SelectSeq(tape, LAMBDA e : e.type = "Trade")

\* C34: the last_t, last_p and last_q of a published snapshot are the time,
\* price and quantity of the latest Trade event on the tape, and None only
\* while the tape holds no Trade event.
C34_LastTransPublished ==
    ~aborted =>
        LET data == publish_lob(now, None)
            n == Len(TapeTrades)
        IN  IF n = 0
            THEN data.last_t = None /\ data.last_p = None
                 /\ data.last_q = None
            ELSE /\ data.last_t = Some(TapeTrades[n].time)
                 /\ data.last_p = Some(TapeTrades[n].price)
                 /\ data.last_q = Some(TapeTrades[n].qty)

\* the latest call handed its order to book_take: a MKT, IOC, FOK or AON
\* order, or a LIM or GFD order that reached the opposite best price
CallIsTake ==
    /\ call.n > 0
    /\ \/ call.order.ostyle \in {"MKT", "IOC", "FOK", "AON"}
       \/ call.order.ostyle \in {"LIM", "GFD"} /\ LimitReachesBest

\* the ids of the resting orders the latest call traded with
ConsumedIds == {call.log[i].oid : i \in 1 .. Len(call.log)}

\* the quantities of a transaction list
TrnsQty(trns) == SumSeq([i \in 1 .. Len(trns) |-> trns[i].Qty])

\* one message about the incoming order, FILL, PART or FAIL, whose
\* transactions sum to the traded quantity, and one message about each
\* resting order consumed: FILL when it is gone from the book, PART when it
\* still rests
TakeMessages ==
    LET opp == OppositeHalf(CallPool, call.order.otype).orders
    IN  /\ Len(OwnMsgs) = 1
        /\ OwnMsgs[1].tid = call.order.tid
        /\ OwnMsgs[1].event \in {"FILL", "PART", "FAIL"}
        /\ TrnsQty(OwnMsgs[1].trns) = QtyOf(NewTrades)
        /\ TrnsQty(OwnMsgs[1].trns) = QtyOf(call.log)
        /\ Len(ReturnedMsgs) = 1 + Cardinality(ConsumedIds)
        /\ \A o \in ConsumedIds :
               \E m \in 1 .. Len(ReturnedMsgs) :
                   /\ ReturnedMsgs[m].oid = o
                   /\ ReturnedMsgs[m].event
                          = IF o \in DOMAIN opp THEN "PART" ELSE "FILL"

\* C35: every call that hands its order to book_take returns, with one
\* message about the incoming order (FILL, PART or FAIL) and one about each
\* resting order it consumed (FILL when removed, PART when left on the
\* book); the transactions of the incoming order's message sum to the
\* quantity traded and to the quantities of the Trade events.
C35_TakeMessages == CallIsTake => (call.returned /\ TakeMessages)

\* ---- time priority at the best price of the exchange of BSE.py --------
\* a call of process_order of BSE.py that returned a transaction record
V1Trade == out.op = "process_order" /\ out.value # None

\* the half of the book the counterparty of that trade rested in
V1Opposite ==
    IF out.arg.otype = "Bid" THEN out.before.asks ELSE out.before.bids

\* the prices of that half, and its best one
V1OppositePrices ==
    {V1Opposite.orders[t].price : t \in DOMAIN V1Opposite.orders}

V1OppositeBest ==
    IF out.arg.otype = "Bid" THEN MinOf(V1OppositePrices)
    ELSE MaxOf(V1OppositePrices)

\* C36: in BSE.py, when several orders rest at the best price, the
\* counterparty of a trade is the one among them with the earliest time
C36_EarliestAtBestTrades ==
    V1Trade =>
        LET party1 == out.value[1].party1
        IN  /\ party1 \in DOMAIN V1Opposite.orders
            /\ V1Opposite.orders[party1].price = V1OppositeBest
            /\ \A t \in DOMAIN V1Opposite.orders :
                   V1Opposite.orders[t].price = V1OppositeBest
                       => V1Opposite.orders[party1].time
                              <= V1Opposite.orders[t].time

\* ---- a cancellation and the participant who asks for it ----------------
\* C37: a CAN request removes a resting order only when the participant id
\* of the request is that of the resting order: after a CAN, the orders of
\* every other participant are as they were before the call.
C37_CancelOnlyOwnOrder ==
    (call.n > 0 /\ call.order.ostyle = "CAN") =>
        \A i \in 1 .. 4 :
            OrdersOfOthers(Halves[i], call.order.tid)
                = OrdersOfOthers(HalvesBefore[i], call.order.tid)

\* the half a CAN request names: the venue by its quantity, the side by
\* its otype, as an index of Halves
CancelTarget ==
    (IF PoolOf(call.order) = "lit" THEN 0 ELSE 2)
        + (IF call.order.otype = "Bid" THEN 1 ELSE 2)

\* the orders of a half but the one filed under oid
OrdersBut(half, oid) ==
    [o \in IdsOf(half) \ {oid} |-> half.orders[o]]

\* C37 (as the code has it): a CAN request removes the resting order that
\* is filed under the request's order id in the half the request names,
\* whatever participant id the request carries, and no other order.
C37_CancelByOrderId ==
    (call.n > 0 /\ call.order.ostyle = "CAN") =>
        \A i \in 1 .. 4 :
            Halves[i].orders
                = IF i = CancelTarget
                  THEN OrdersBut(HalvesBefore[i], call.order.orderid)
                  ELSE HalvesBefore[i].orders

\* a CAN from one participant has removed the resting order of another
C37_Witness ==
    /\ call.n > 0
    /\ call.order.ostyle = "CAN"
    /\ call.returned
    /\ LET before == HalvesBefore[CancelTarget]
       IN  /\ call.order.orderid \in IdsOf(before)
           /\ before.orders[call.order.orderid].tid # call.order.tid
           /\ call.order.orderid \notin IdsOf(Halves[CancelTarget])

\* ---- quantities stay positive ------------------------------------------
\* every order that rests in the half has a quantity of at least 1, and so
\* has every level of the depth the half publishes
PositiveHalf(half) ==
    /\ \A o \in IdsOf(half) : half.orders[o].qty >= 1
    /\ \A i \in 1 .. Len(half.lob_anon) : half.lob_anon[i][2] >= 1

\* C38: with orders of positive integer quantity, in every reachable state
\* every resting order and every published depth level has a quantity of
\* at least 1, and every Trade event on the tape has a quantity of at
\* least 1: a resting order whose quantity a take brings to zero is removed
\* in the same take.
C38_QuantitiesPositive ==
    /\ \A i \in 1 .. 4 : PositiveHalf(Halves[i])
    /\ \A i \in 1 .. Len(tape) :
           tape[i].type = "Trade" => tape[i].qty >= 1

\* a take has traded the whole quantity of a resting order, and the order
\* is gone from the book, while another order still rests there
C38_Witness ==
    /\ call.n > 0
    /\ call.returned
    /\ NewTrades # << >>
    /\ LET before == OppositeHalf(CallPoolBefore, call.order.otype)
           after == OppositeHalf(CallPool, call.order.otype)
       IN  /\ \E o \in IdsOf(before) :
                  /\ o \notin IdsOf(after)
                  /\ before.orders[o].qty = NewTrades[1].qty
           /\ IdsOf(after) # {}

\* ---- the Cancel record of del_order of BSE.py ---------------------------
\* the half of the book a call of del_order of BSE.py names
V1KillHalf(exch) == IF out.arg.otype = "Bid" THEN exch.bids ELSE exch.asks

\* C39: in BSE.py a Cancel record is appended to the tape only when
\* del_order removed an order: a call of del_order for a trader who has no
\* order on that side leaves the book and the tape as they were.
C39_CancelOnlyWhenRemoved ==
    (out.op = "del_order"
        /\ out.arg.tid \notin DOMAIN V1KillHalf(out.before).orders)
    => v1 = out.before

\* ---- the length of the tape of BSE.py ----------------------------------
\* the tape before the latest call of the exchange of BSE.py, followed by
\* the events that call recorded: the Trade it returned, or the Cancel
V1Recorded ==
    IF out.op = "process_order"
    THEN IF out.value = None THEN out.before.tape
         ELSE Append(out.before.tape, out.value[1])
    ELSE IF out.op = "del_order"
    THEN Append(out.before.tape,
                [type |-> "Cancel", time |-> now, order |-> out.arg])
    ELSE << >>

\* C40: in BSE.py, after any call of process_order or del_order the tape
\* holds at most tape_length events, and they are the most recent ones in
\* the order they were recorded: only the oldest events are dropped, and
\* no event that is kept is altered.
C40_TapeBounded ==
    (out.op \in {"process_order", "del_order"}) =>
        /\ Len(v1.tape) <= tape_length
        /\ Len(v1.tape) = IF Len(V1Recorded) <= tape_length
                          THEN Len(V1Recorded) ELSE tape_length
        /\ \A i \in 1 .. Len(v1.tape) :
               v1.tape[i]
                   = V1Recorded[Len(V1Recorded) - Len(v1.tape) + i]

\* the tape was full, a call recorded one more event, and the oldest event
\* has been dropped
C40_Witness ==
    /\ out.op \in {"process_order", "del_order"}
    /\ Len(out.before.tape) = tape_length
    /\ Len(V1Recorded) = tape_length + 1
    /\ Len(v1.tape) = tape_length
    /\ v1.tape[tape_length] = V1Recorded[tape_length + 1]
    /\ v1.tape[1] = out.before.tape[2]

====
